---- MODULE Spec2Model ----
(***************************************************************************)
(* Verification model of the homepage dashboard (bad33ndj3/homepage):      *)
(* the GitLab insight builder and reviewer annotator of StatusBoard.tsx,   *)
(* the fetch effects with their per-cycle "cancelled" flags, and the       *)
(* command palette of CommandPalette.tsx as it is driven by App.           *)
(*                                                                         *)
(* Encoding conventions                                                    *)
(*  - an optional boolean (true | false | undefined) is one of the strings *)
(*    "true", "false", "undefined"; JS truthiness of such a value is       *)
(*    Truthy(v);                                                           *)
(*  - an optional number is a sequence of length <= 1 (<<>> is undefined); *)
(*  - a timestamp string (ISO 8601) is represented by the millisecond      *)
(*    value `new Date(s).getTime()` yields for it; only valid timestamps   *)
(*    are modelled;                                                        *)
(*  - a text is a sequence of characters over a small alphabet whose       *)
(*    letters come in a lower and an upper case form.                      *)
(***************************************************************************)
EXTENDS Integers, Sequences, FiniteSets, TLC

VARIABLES
  env,               \* import.meta.env: VITE_GITLAB_TOKEN, VITE_GITLAB_USERNAME
  assigned,          \* StatusBoard: statuses[0] (items, highlights), loading, error
  assignedCycles,    \* assigned fetch effect: one record per started cycle
  gitlabHighlights,  \* App: state fed by onHighlightsChange
  reviewer,          \* StatusBoard: reviewerStatus, reviewerLoading, reviewerError
  reviewerCycles,    \* reviewer fetch effect: one record per started cycle
  reviewRows,        \* review states classified on their own (getReviewCategory)
  weatherProps,      \* WeatherBadge props: timeZone, staticLocation
  weather,           \* WeatherBadge: status, coords, weather, locationLabel, error
  weatherCycles,     \* weather fetch effect: one record per started cycle
  weatherSummary,    \* App: state fed by onSummaryChange
  links,             \* App: linksConfig, the configured bookmarks
  palette,           \* App: paletteOpen, paletteQuery; CommandPalette: activeIndex
  detailedWeather,   \* App: the 'homebase-weather-details' setting
  activation,        \* the most recent handleSelect: what it invoked or opened
  rain,              \* an hourly block and what the rain helpers make of it
  merged,            \* StatusBoard: activeTab and the merged status of useMergedStatus
  storage,           \* window.localStorage: the entry of each key the App uses
  settings,          \* App: displayName, timeZoneSetting, timeZoneValid
  lastEvent          \* history: the handler that ran last, and for which cycle

vars == <<env, assigned, assignedCycles, gitlabHighlights, reviewer, reviewerCycles,
          reviewRows, weatherProps, weather, weatherCycles, weatherSummary, links,
          palette, detailedWeather, activation, rain, merged, storage, settings,
          lastEvent>>

assignedVars == <<assigned, assignedCycles, gitlabHighlights>>
reviewerVars == <<reviewer, reviewerCycles>>
weatherVars == <<weatherProps, weather, weatherCycles, weatherSummary>>
paletteVars == <<links, palette, detailedWeather, activation>>

----------------------------------------------------------------------------
(* Bounds of the model *)

Now == 500000000            \* Date.now() of the run, in ms
ManyLinks == 20             \* bookmarks of the largest links configuration
MaxVaried == 2              \* merge requests of arbitrary shape per payload
MaxCycles == 2              \* fetch cycles started per effect
MaxReviewerMrs == 2         \* merge requests per reviewer payload
MaxRows == 2                \* review states classified together
MaxHours == 3               \* entries of an hourly forecast block

----------------------------------------------------------------------------
(* Generic helpers *)

Truthy(v) == v = "true"

Min(a, b) == IF a < b THEN a ELSE b
Max(a, b) == IF a > b THEN a ELSE b

Range(s) == {s[i] : i \in 1..Len(s)}

SeqsUpTo(S, n) == UNION {[1..k -> S] : k \in 0..n}

\* Array.prototype.slice(0, n)
SliceTo(s, n) == SubSeq(s, 1, Min(n, Len(s)))

\* Array.prototype.sort(cmp): a stable sort (ECMAScript 2019). cmp[i][j] is
\* the comparator applied to (s[i], s[j]): a negative value places s[i]
\* before s[j], and elements that compare equal keep their input order.
SortRank(s, cmp, i) ==
  Cardinality({j \in 1..Len(s) :
                 (cmp[j][i] < 0) \/ (cmp[j][i] = 0 /\ j < i)}) + 1

SortBy(s, cmp) ==
  LET rank == [i \in 1..Len(s) |-> SortRank(s, cmp, i)]
  IN  [k \in 1..Len(s) |-> s[CHOOSE i \in 1..Len(s) : rank[i] = k]]

----------------------------------------------------------------------------
(* StatusBoard.tsx: the assigned merge requests insight builder *)

STALE_WINDOW_MS == 1000 * 60 * 60 * 48
HIGHLIGHT_LIMIT == 10

staleThreshold == Now - STALE_WINDOW_MS

getAssignedPriorityScore_dropDraft(mr) ==
  (IF mr.pipeline = "failed" THEN 3 ELSE 0)
  + (IF mr.merge_status = "cannot_be_merged" THEN 3 ELSE 0)
  + (IF mr.updated_at < staleThreshold THEN 2 ELSE 0)

getAssignedPriorityScore(mr) ==
  (IF mr.pipeline = "failed" THEN 3 ELSE 0)
  + (IF mr.merge_status = "cannot_be_merged" THEN 3 ELSE 0)
  + (IF mr.updated_at < staleThreshold THEN 2 ELSE 0)
  - (IF mr.draft \/ mr.work_in_progress THEN 1 ELSE 0)

\* the comparator of buildGitLabInsights' sort
compareAssigned(a, b) ==
  LET priorityDiff == getAssignedPriorityScore(b) - getAssignedPriorityScore(a)
  IN  IF priorityDiff # 0 THEN priorityDiff ELSE b.updated_at - a.updated_at

buildHighlightTags_staleBeforeDraft(mr) ==
  (IF mr.pipeline = "failed" THEN <<"Pipeline">> ELSE <<>>)
  \o (IF mr.merge_status = "cannot_be_merged" THEN <<"Conflicts">> ELSE <<>>)
  \o (IF mr.updated_at < staleThreshold THEN <<"Stale">> ELSE <<>>)
  \o (IF mr.draft \/ mr.work_in_progress THEN <<"Draft">> ELSE <<>>)

buildHighlightTags(mr) ==
  (IF mr.pipeline = "failed" THEN <<"Pipeline">> ELSE <<>>)
  \o (IF mr.merge_status = "cannot_be_merged" THEN <<"Conflicts">> ELSE <<>>)
  \o (IF mr.draft \/ mr.work_in_progress THEN <<"Draft">> ELSE <<>>)
  \o (IF mr.updated_at < staleThreshold THEN <<"Stale">> ELSE <<>>)

\* the .map() of buildGitLabInsights: one highlight per merge request
assignedHighlight(mr) ==
  [ title          |-> mr.id,
    badge          |-> IF mr.pipeline = "failed" THEN "Pipeline failed"
                       ELSE IF mr.merge_status = "cannot_be_merged" THEN "Conflicts"
                       ELSE IF mr.draft \/ mr.work_in_progress THEN "Draft"
                       ELSE "undefined",
    tags           |-> buildHighlightTags(mr),
    updatedAt      |-> mr.updated_at,
    pipelineStatus |-> mr.pipeline,
    isStale        |-> mr.updated_at < staleThreshold,
    hasConflicts   |-> mr.merge_status = "cannot_be_merged" ]

isStaleMr(mr) == mr.updated_at < staleThreshold
isPipelineFailing(mr) == mr.pipeline = "failed"
isConflicting(mr) == mr.merge_status = "cannot_be_merged"

buildGitLabInsights_countsShown(mrs) ==
  LET cmp == [i \in 1..Len(mrs) |->
                [j \in 1..Len(mrs) |-> compareAssigned(mrs[i], mrs[j])]]
      shown == SliceTo(SortBy(mrs, cmp), HIGHLIGHT_LIMIT)
  IN  [ metrics    |-> [ open      |-> Len(mrs),
                         stale     |-> Cardinality({i \in 1..Len(shown) :
                                                      isStaleMr(shown[i])}),
                         pipeline  |-> Cardinality({i \in 1..Len(shown) :
                                                      isPipelineFailing(shown[i])}),
                         conflicts |-> Cardinality({i \in 1..Len(shown) :
                                                      isConflicting(shown[i])}) ],
        highlights |-> [k \in 1..Len(shown) |-> assignedHighlight(shown[k])] ]

buildGitLabInsights(mrs) ==
  [ metrics    |-> [ open      |-> Len(mrs),
                     stale     |-> Cardinality({i \in 1..Len(mrs) : isStaleMr(mrs[i])}),
                     pipeline  |-> Cardinality({i \in 1..Len(mrs) :
                                                  isPipelineFailing(mrs[i])}),
                     conflicts |-> Cardinality({i \in 1..Len(mrs) :
                                                  isConflicting(mrs[i])}) ],
    highlights |-> LET cmp == [i \in 1..Len(mrs) |->
                                 [j \in 1..Len(mrs) |-> compareAssigned(mrs[i], mrs[j])]]
                       sorted == SliceTo(SortBy(mrs, cmp), HIGHLIGHT_LIMIT)
                   IN  [k \in 1..Len(sorted) |-> assignedHighlight(sorted[k])] ]

----------------------------------------------------------------------------
(* StatusBoard.tsx: module level configuration *)

\* the kinds of value VITE_GITLAB_TOKEN can hold: not a string, a blank
\* string, a string containing "your-token" or "example", a real token
TokenInputs == {"undefined", "blank", "your-token-here", "example-token", "glpat-1"}

sanitizeToken_keepsPlaceholder(value) ==
  IF value = "undefined" THEN "undefined"
  ELSE IF value = "blank" THEN "undefined"
  ELSE value

sanitizeToken(value) ==
  IF value = "undefined" THEN "undefined"
  ELSE IF value = "blank" THEN "undefined"
  ELSE IF value \in {"your-token-here", "example-token"} THEN "undefined"
  ELSE value

gitlabToken == sanitizeToken(env.VITE_GITLAB_TOKEN)
gitlabUsername == env.VITE_GITLAB_USERNAME
hasToken == gitlabToken # "undefined"
hasUsername == gitlabUsername # ""

EnvInputs == [VITE_GITLAB_TOKEN : TokenInputs, VITE_GITLAB_USERNAME : {"", "me"}]

\* defaultStatuses[0]: items show no value, no highlights
defaultStatus ==
  [ metrics |-> [open |-> -1, stale |-> -1, pipeline |-> -1, conflicts |-> -1],
    highlights |-> <<>> ]

transformAssigned_anyList(payload) == buildGitLabInsights(payload.mrs)

\* defaultStatuses[0].transform
transformAssigned(payload) ==
  LET mrs == IF payload.isArray THEN payload.mrs ELSE <<>>
  IN  buildGitLabInsights(mrs)

----------------------------------------------------------------------------
(* Merge request payloads *)

\* a merge request as the API returns it; id stands for title and web_url
MergeRequest(id, shape) ==
  [ id |-> id,
    pipeline |-> shape.pipeline,
    merge_status |-> shape.merge_status,
    draft |-> shape.draft,
    work_in_progress |-> shape.work_in_progress,
    updated_at |-> shape.updated_at ]

AssignedShape(p, m, d, w, u) ==
  [pipeline |-> p, merge_status |-> m, draft |-> d, work_in_progress |-> w,
   updated_at |-> u]

\* every combination of the four score components, plus a merge request
\* flagged work_in_progress only and one updated exactly at the threshold
AssignedShapes ==
  { AssignedShape(p, m, d, FALSE, u) :
      p \in {"failed", "success"}, m \in {"cannot_be_merged", "can_be_merged"},
      d \in BOOLEAN, u \in {staleThreshold - 1, Now - 3600000} }
  \cup { AssignedShape("undefined", "can_be_merged", FALSE, TRUE, Now - 3600000),
         AssignedShape("success", "can_be_merged", FALSE, FALSE, staleThreshold) }

\* an unremarkable merge request updated a day ago (score 0)
FillerShape ==
  [pipeline |-> "undefined", merge_status |-> "can_be_merged", draft |-> FALSE,
   work_in_progress |-> FALSE, updated_at |-> Now - 86400000]

\* a page of merge requests: up to MaxVaried of any shape, followed by
\* either none or HIGHLIGHT_LIMIT - 1 unremarkable ones
AssignedLists(n) ==
  { [i \in 1..(Len(v) + pad) |->
       MergeRequest(i, IF i <= Len(v) THEN v[i] ELSE FillerShape)] :
      v \in SeqsUpTo(AssignedShapes, n), pad \in {0, HIGHLIGHT_LIMIT - 1} }

ArrayPayload(mrs) == [isArray |-> TRUE, mrs |-> mrs]
NonArrayPayload == [isArray |-> FALSE, mrs |-> <<>>]

\* a payload that is an object and not an array, although it has a length
\* and indexed entries: { 0: mr, length: 1 }
ArrayLikePayload ==
  [ isArray |-> FALSE,
    mrs |-> <<MergeRequest(1, AssignedShape("failed", "cannot_be_merged", FALSE, FALSE,
                                            staleThreshold - 1))>> ]

\* a page of HIGHLIGHT_LIMIT + 1 merge requests that are all stale, failing
\* and conflicting
CrowdedList ==
  [ i \in 1..(HIGHLIGHT_LIMIT + 1) |->
      MergeRequest(i, AssignedShape("failed", "cannot_be_merged", FALSE, FALSE,
                                    staleThreshold - i)) ]

\* one merge request updated 72 hours ago, conflicting, without pipeline
ExampleList ==
  << MergeRequest(1, AssignedShape("undefined", "cannot_be_merged", FALSE, FALSE,
                                   Now - 72 * 3600000)) >>

InsightPayloads ==
  {ArrayPayload(l) : l \in AssignedLists(MaxVaried)}
  \cup {ArrayPayload(CrowdedList), ArrayPayload(ExampleList)}
  \cup {NonArrayPayload, ArrayLikePayload}

----------------------------------------------------------------------------
(* StatusBoard.tsx: the assigned fetch effect, one cycle per run of the effect *)

Event(kind, effect, cycle) == [kind |-> kind, effect |-> effect, cycle |-> cycle]

NewAssignedCycle ==
  [ cancelled |-> FALSE,
    phase     |-> IF hasToken THEN "fetching" ELSE "fetched",
    payload   |-> NonArrayPayload,
    outcome   |-> "none",
    update    |-> defaultStatus ]

\* the `cancelled` tests of lines 243, 253 and 261
assignedMayWrite_ignoreCancelled(cycle) == TRUE

assignedMayWrite(cycle) == ~cycle.cancelled

\* the effect runs: setLoading(true), setError(null), the request is issued
\* (or, without apiUrl / headers, the status is returned as it is)
AssignedMount ==
  /\ ~assigned.mounted
  /\ Len(assignedCycles) < MaxCycles
  /\ assigned' = [ mounted |-> TRUE, status |-> defaultStatus,
                   loading |-> TRUE, error |-> "null" ]
  /\ assignedCycles' = Append(assignedCycles, NewAssignedCycle)
  /\ lastEvent' = Event("start", "assigned", Len(assignedCycles) + 1)
  /\ UNCHANGED <<paletteVars, rain, merged, storage, settings, env, gitlabHighlights, reviewerVars, reviewRows, weatherVars>>

\* the effect's cleanup runs and the effect runs again on the same instance
\* (development double invocation, hot reload): component state is kept
AssignedRestart ==
  /\ assigned.mounted
  /\ Len(assignedCycles) < MaxCycles
  /\ assigned' = [assigned EXCEPT !.loading = TRUE, !.error = "null"]
  /\ assignedCycles' =
       Append([assignedCycles EXCEPT ![Len(assignedCycles)].cancelled = TRUE],
              NewAssignedCycle)
  /\ lastEvent' = Event("start", "assigned", Len(assignedCycles) + 1)
  /\ UNCHANGED <<paletteVars, rain, merged, storage, settings, env, gitlabHighlights, reviewerVars, reviewRows, weatherVars>>

\* the view unmounts: the cleanup of the current cycle runs
AssignedUnmount ==
  /\ assigned.mounted
  /\ assigned' = [assigned EXCEPT !.mounted = FALSE]
  /\ assignedCycles' = [assignedCycles EXCEPT ![Len(assignedCycles)].cancelled = TRUE]
  /\ lastEvent' = Event("cleanup", "assigned", Len(assignedCycles))
  /\ UNCHANGED <<paletteVars, rain, merged, storage, settings, env, gitlabHighlights, reviewerVars, reviewRows, weatherVars>>

\* fetchJson resolved: lines 242-251
AssignedFetched(payloads) ==
  \E c \in 1..Len(assignedCycles), payload \in payloads :
    /\ assignedCycles[c].phase = "fetching"
    /\ IF ~assignedMayWrite(assignedCycles[c])
       THEN /\ assignedCycles' = [assignedCycles EXCEPT ![c].phase = "fetched",
                                    ![c].payload = payload, ![c].outcome = "dropped"]
            /\ UNCHANGED gitlabHighlights
       ELSE LET next == transformAssigned(payload)
            IN  /\ assignedCycles' = [assignedCycles EXCEPT ![c].phase = "fetched",
                                        ![c].payload = payload,
                                        ![c].outcome = "transformed",
                                        ![c].update = next]
                /\ gitlabHighlights' = next.highlights
    /\ lastEvent' = Event("response", "assigned", c)
    /\ UNCHANGED <<paletteVars, rain, merged, storage, settings, env, assigned, reviewerVars, reviewRows, weatherVars>>

\* fetchJson threw: lines 252-257
AssignedFailed ==
  \E c \in 1..Len(assignedCycles) :
    /\ assignedCycles[c].phase = "fetching"
    /\ assignedCycles' = [assignedCycles EXCEPT ![c].phase = "fetched",
                            ![c].outcome = IF ~assignedMayWrite(assignedCycles[c])
                                           THEN "dropped" ELSE "failed"]
    /\ assigned' = IF ~assignedMayWrite(assignedCycles[c]) THEN assigned
                   ELSE [assigned EXCEPT !.error = "Request failed"]
    /\ lastEvent' = Event("failure", "assigned", c)
    /\ UNCHANGED <<paletteVars, rain, merged, storage, settings, env, gitlabHighlights, reviewerVars, reviewRows, weatherVars>>

\* Promise.all resolved: lines 261-264
AssignedCommit ==
  \E c \in 1..Len(assignedCycles) :
    /\ assignedCycles[c].phase = "fetched"
    /\ assignedCycles' = [assignedCycles EXCEPT ![c].phase = "done"]
    /\ assigned' = IF ~assignedMayWrite(assignedCycles[c]) THEN assigned
                   ELSE [assigned EXCEPT !.status = assignedCycles[c].update,
                                         !.loading = FALSE]
    /\ lastEvent' = Event("commit", "assigned", c)
    /\ UNCHANGED <<paletteVars, rain, merged, storage, settings, env, gitlabHighlights, reviewerVars, reviewRows, weatherVars>>

InitAssigned ==
  /\ assigned = [ mounted |-> FALSE, status |-> defaultStatus,
                  loading |-> FALSE, error |-> "null" ]
  /\ assignedCycles = <<>>
  /\ gitlabHighlights = <<>>

----------------------------------------------------------------------------
(* StatusBoard.tsx: review state and review category *)

Bool3(b) == IF b THEN "true" ELSE "false"

\* v ?? d
Coalesce(v, d) == IF v = "undefined" THEN d ELSE v

\* an absent ReviewState (highlight.reviewState === undefined)
AbsentReviewState == [absent |-> TRUE]
isAbsent(reviewState) == "absent" \in DOMAIN reviewState

getReviewCategory_approvalOnly(reviewState) ==
  IF isAbsent(reviewState) THEN "needs-review"
  ELSE IF Truthy(reviewState.approved) THEN "reviewed"
  ELSE IF Truthy(reviewState.commented) /\ ~Truthy(reviewState.approved) THEN "in-review"
  ELSE "needs-review"

getReviewCategory(reviewState) ==
  IF isAbsent(reviewState) THEN "needs-review"
  ELSE IF Truthy(reviewState.approved) /\ reviewState.commentsResolved # "false"
    THEN "reviewed"
  ELSE IF Truthy(reviewState.commented) /\ ~Truthy(reviewState.approved)
    THEN "in-review"
  ELSE IF Truthy(reviewState.approved) /\ reviewState.commentsResolved = "false"
    THEN "in-review"
  ELSE "needs-review"

categoryOrder(category) ==
  CASE category = "needs-review" -> 0
    [] category = "in-review" -> 1
    [] category = "reviewed" -> 2

hasUserApproved(mr) == hasUsername /\ gitlabUsername \in mr.approved_by

\* the ReviewState seeded from the merge request: lines 613-617 and 630-635
baseReviewState(mr) ==
  [ approved         |-> Bool3(hasUserApproved(mr)),
    commented        |-> IF mr.user_notes_count = <<>> THEN "undefined"
                         ELSE Bool3(mr.user_notes_count[1] > 0),
    commentsResolved |-> mr.blocking_discussions_resolved,
    reviewed         |-> "undefined" ]

\* the comparator of buildReviewerInsights' sort
compareReviewer(a, b) ==
  LET catB == categoryOrder(getReviewCategory(baseReviewState(b)))
      catA == categoryOrder(getReviewCategory(baseReviewState(a)))
      priorityDiff == getAssignedPriorityScore(b) - getAssignedPriorityScore(a)
  IN  IF catA # catB THEN catA - catB
      ELSE IF priorityDiff # 0 THEN priorityDiff
      ELSE b.updated_at - a.updated_at

buildReviewTags(reviewState, pipelineFailed, hasConflicts, reviewCategory) ==
  (IF pipelineFailed THEN <<"Pipeline">> ELSE <<>>)
  \o (IF hasConflicts THEN <<"Conflicts">> ELSE <<>>)
  \o (IF Truthy(reviewState.approved) THEN <<"Approved">> ELSE <<>>)
  \o (IF Truthy(reviewState.commented) /\ ~Truthy(reviewState.approved)
      THEN <<"Commented">> ELSE <<>>)
  \o (IF reviewState.commentsResolved = "false" THEN <<"Unresolved">> ELSE <<>>)
  \o (IF Truthy(reviewState.commentsResolved)
         /\ (Truthy(reviewState.approved) \/ Truthy(reviewState.commented))
      THEN <<"Resolved">> ELSE <<>>)
  \o (IF reviewCategory = "needs-review" THEN <<"Needs review">> ELSE <<>>)
  \o (IF reviewCategory = "in-review" THEN <<"In review">> ELSE <<>>)
  \o (IF reviewCategory = "reviewed" THEN <<"Reviewed">> ELSE <<>>)

\* the .map() of buildReviewerInsights: lines 629-662
reviewerHighlight(mr) ==
  LET reviewState == baseReviewState(mr)
      hasConflicts == mr.merge_status = "cannot_be_merged"
      pipelineFailed == mr.pipeline = "failed"
      reviewCategory == getReviewCategory(reviewState)
  IN  [ title          |-> mr.id,
        badge          |-> IF pipelineFailed THEN "Pipeline failed"
                           ELSE IF hasConflicts THEN "Conflicts" ELSE "undefined",
        tags           |-> buildReviewTags(reviewState, pipelineFailed, hasConflicts,
                                           reviewCategory),
        updatedAt      |-> mr.updated_at,
        pipelineStatus |-> mr.pipeline,
        projectId      |-> mr.project_id,
        iid            |-> mr.iid,
        hasConflicts   |-> hasConflicts,
        reviewState    |-> reviewState,
        reviewCategory |-> reviewCategory ]

\* lines 605-662
baseHighlights(mrs) ==
  LET cmp == [i \in 1..Len(mrs) |->
                [j \in 1..Len(mrs) |-> compareReviewer(mrs[i], mrs[j])]]
      sorted == SortBy(mrs, cmp)
  IN  [k \in 1..Len(sorted) |-> reviewerHighlight(sorted[k])]

----------------------------------------------------------------------------
(* StatusBoard.tsx: annotateReviewerHighlights, one request record per     *)
(* highlight; each record is the async arrow function of lines 740-787     *)

\* what a notes or discussions request can come back with: a thrown error
\* (network failure, non-2xx), an empty array, a non-empty array, a value
\* that is not an array
RequestOutcomes == {"failed", "empty", "some", "not-array"}

\* line 751 and the catch of line 753
commentedAfterNotes_failureMeansCommented(highlight, outcome) ==
  IF outcome = "failed" THEN "true"
  ELSE Bool3(outcome = "some")

commentedAfterNotes(highlight, outcome) ==
  IF outcome = "failed" THEN Coalesce(highlight.reviewState.commented, "false")
  ELSE Bool3(outcome = "some")

\* line 762 and the catch of line 764
resolvedAfterDiscussions(highlight, outcome) ==
  IF outcome = "failed" THEN highlight.reviewState.commentsResolved
  ELSE Bool3(~(outcome = "some"))

\* whether a failed supplemental request escapes the arrow function
requestFailureEscapes_noCatch(outcome) == outcome = "failed"

requestFailureEscapes(outcome) == FALSE

\* lines 768-786
annotatedHighlight_keepsCategory(highlight, commented, commentsResolved) ==
  [highlight EXCEPT
     !.reviewState = [highlight.reviewState EXCEPT
                        !.commented = commented,
                        !.commentsResolved = commentsResolved,
                        !.reviewed = IF Truthy(commented) THEN commented
                                     ELSE highlight.reviewState.approved]]

annotatedHighlight(highlight, commented, commentsResolved) ==
  LET reviewed == IF Truthy(commented) THEN commented
                  ELSE highlight.reviewState.approved
      updatedReviewState ==
        [highlight.reviewState EXCEPT !.commented = commented,
                                      !.commentsResolved = commentsResolved,
                                      !.reviewed = reviewed]
      reviewCategory == getReviewCategory(updatedReviewState)
  IN  [highlight EXCEPT
         !.reviewState = updatedReviewState,
         !.tags = buildReviewTags(updatedReviewState,
                                  highlight.pipelineStatus = "failed",
                                  highlight.hasConflicts, reviewCategory),
         !.reviewCategory = reviewCategory]

\* the arrow function up to its first await: lines 741-750
startRequest(highlight) ==
  IF highlight.projectId = 0 \/ highlight.iid = 0
  THEN [ step |-> "fulfilled", notes |-> "skipped", discussions |-> "skipped",
         commented |-> "undefined", commentsResolved |-> "undefined",
         result |-> highlight ]
  ELSE [ step |-> "notes", notes |-> "pending", discussions |-> "skipped",
         commented |-> Coalesce(highlight.reviewState.commented, "false"),
         commentsResolved |-> highlight.reviewState.commentsResolved,
         result |-> highlight ]

\* the notes request settled: lines 751-766
afterNotes_alwaysDiscussions(highlight, request, outcome) ==
  [request EXCEPT !.step = "discussions", !.notes = outcome,
                  !.discussions = "pending",
                  !.commented = commentedAfterNotes(highlight, outcome)]

afterNotes(highlight, request, outcome) ==
  IF requestFailureEscapes(outcome)
  THEN [request EXCEPT !.step = "rejected", !.notes = outcome]
  ELSE LET commented == commentedAfterNotes(highlight, outcome)
       IN  IF request.commentsResolved = "undefined"
           THEN [request EXCEPT !.step = "discussions", !.notes = outcome,
                                !.discussions = "pending", !.commented = commented]
           ELSE [request EXCEPT !.step = "fulfilled", !.notes = outcome,
                                !.commented = commented,
                                !.result = annotatedHighlight(highlight, commented,
                                                              request.commentsResolved)]

\* the discussions request settled: lines 762-786
afterDiscussions(highlight, request, outcome) ==
  IF requestFailureEscapes(outcome)
  THEN [request EXCEPT !.step = "rejected", !.discussions = outcome]
  ELSE LET commentsResolved == resolvedAfterDiscussions(highlight, outcome)
       IN  [request EXCEPT !.step = "fulfilled", !.discussions = outcome,
                           !.commentsResolved = commentsResolved,
                           !.result = annotatedHighlight(highlight, request.commented,
                                                         commentsResolved)]

\* Promise.all(requests): fulfils once every request has fulfilled
allFulfilled(requests) ==
  \A i \in 1..Len(requests) : requests[i].step = "fulfilled"

\* Promise.all(requests): rejects as soon as one request has rejected
anyRejected(requests) ==
  \E i \in 1..Len(requests) : requests[i].step = "rejected"

\* lines 665-701, applied to the highlights annotateReviewerHighlights resolved with
reviewerInsights(highlights) ==
  LET count(category) ==
        Cardinality({i \in 1..Len(highlights) :
                       highlights[i].reviewCategory = category})
  IN  [ metrics    |-> [ needsReview |-> count("needs-review"),
                         inReview    |-> count("in-review"),
                         reviewed    |-> count("reviewed") ],
        highlights |-> highlights ]

----------------------------------------------------------------------------
(* StatusBoard.tsx: the reviewer fetch effect *)

reviewerEnabled == hasToken /\ hasUsername

\* defaultReviewerStatus: null without the reviewer endpoint
defaultReviewerStatus ==
  [ isNull     |-> ~reviewerEnabled,
    metrics    |-> [needsReview |-> -1, inReview |-> -1, reviewed |-> -1],
    highlights |-> <<>> ]

\* the `cancelled` tests of lines 284, 295 and 299
reviewerMayWrite(cycle) == ~cycle.cancelled

NewReviewerCycle ==
  [ cancelled |-> FALSE, phase |-> "fetching", mrs |-> <<>>, base |-> <<>>,
    requests |-> <<>>, outcome |-> "none", result |-> <<>> ]

\* the component mounts and the effect runs: lines 274-279
ReviewerMount ==
  /\ ~reviewer.mounted
  /\ Len(reviewerCycles) < MaxCycles
  /\ IF reviewerEnabled
     THEN /\ reviewer' = [ mounted |-> TRUE, status |-> defaultReviewerStatus,
                           loading |-> TRUE, error |-> "null" ]
          /\ reviewerCycles' = Append(reviewerCycles, NewReviewerCycle)
          /\ lastEvent' = Event("start", "reviewer", Len(reviewerCycles) + 1)
     ELSE /\ reviewer' = [ mounted |-> TRUE, status |-> defaultReviewerStatus,
                           loading |-> FALSE, error |-> "null" ]
          /\ reviewerCycles' = reviewerCycles
          /\ lastEvent' = Event("mount", "reviewer", 0)
  /\ UNCHANGED <<paletteVars, rain, merged, storage, settings, env, assignedVars, reviewRows, weatherVars>>

\* cleanup and re-run of the effect on the same instance
ReviewerRestart ==
  /\ reviewer.mounted
  /\ reviewerEnabled
  /\ Len(reviewerCycles) < MaxCycles
  /\ reviewer' = [reviewer EXCEPT !.loading = TRUE, !.error = "null"]
  /\ reviewerCycles' =
       Append([reviewerCycles EXCEPT ![Len(reviewerCycles)].cancelled = TRUE],
              NewReviewerCycle)
  /\ lastEvent' = Event("start", "reviewer", Len(reviewerCycles) + 1)
  /\ UNCHANGED <<paletteVars, rain, merged, storage, settings, env, assignedVars, reviewRows, weatherVars>>

\* the view unmounts: the cleanup of the current cycle runs
ReviewerUnmount ==
  /\ reviewer.mounted
  /\ reviewer' = [reviewer EXCEPT !.mounted = FALSE]
  /\ reviewerCycles' =
       IF reviewerEnabled
       THEN [reviewerCycles EXCEPT ![Len(reviewerCycles)].cancelled = TRUE]
       ELSE reviewerCycles
  /\ lastEvent' = Event("cleanup", "reviewer", Len(reviewerCycles))
  /\ UNCHANGED <<paletteVars, rain, merged, storage, settings, env, assignedVars, reviewRows, weatherVars>>

\* fetchJson resolved; buildReviewerInsights runs up to the await of
\* annotateReviewerHighlights: lines 281-283, 600-664, 738-750
ReviewerFetched(payloads) ==
  \E c \in 1..Len(reviewerCycles), payload \in payloads :
    /\ reviewerCycles[c].phase = "fetching"
    /\ LET mrs == IF payload.isArray THEN payload.mrs ELSE <<>>
           base == baseHighlights(mrs)
       IN  reviewerCycles' =
             [reviewerCycles EXCEPT
                ![c].phase = "annotating", ![c].mrs = mrs, ![c].base = base,
                ![c].requests =
                  IF ~hasToken \/ ~hasUsername THEN <<>>
                  ELSE [i \in 1..Len(base) |-> startRequest(base[i])]]
    /\ lastEvent' = Event("payload", "reviewer", c)
    /\ UNCHANGED <<paletteVars, rain, merged, storage, settings, env, assignedVars, reviewer, reviewRows, weatherVars>>

\* fetchJson threw: lines 294-302
ReviewerFetchFailed ==
  \E c \in 1..Len(reviewerCycles) :
    /\ reviewerCycles[c].phase = "fetching"
    /\ reviewerCycles' = [reviewerCycles EXCEPT ![c].phase = "done",
                            ![c].outcome = IF ~reviewerMayWrite(reviewerCycles[c])
                                           THEN "dropped" ELSE "failed"]
    /\ reviewer' = IF ~reviewerMayWrite(reviewerCycles[c]) THEN reviewer
                   ELSE [reviewer EXCEPT !.error = "Request failed",
                                         !.loading = FALSE]
    /\ lastEvent' = Event("failure", "reviewer", c)
    /\ UNCHANGED <<paletteVars, rain, merged, storage, settings, env, assignedVars, reviewRows, weatherVars>>

\* the notes request of one highlight settled
NotesSettled ==
  \E c \in 1..Len(reviewerCycles) :
    \E i \in 1..Len(reviewerCycles[c].requests), outcome \in RequestOutcomes :
      /\ reviewerCycles[c].phase = "annotating"
      /\ reviewerCycles[c].requests[i].step = "notes"
      /\ reviewerCycles' =
           [reviewerCycles EXCEPT ![c].requests[i] =
              afterNotes(reviewerCycles[c].base[i], @, outcome)]
      /\ lastEvent' = Event("notes", "reviewer", c)
      /\ UNCHANGED <<paletteVars, rain, merged, storage, settings, env, assignedVars, reviewer, reviewRows, weatherVars>>

\* the discussions request of one highlight settled
DiscussionsSettled ==
  \E c \in 1..Len(reviewerCycles) :
    \E i \in 1..Len(reviewerCycles[c].requests), outcome \in RequestOutcomes :
      /\ reviewerCycles[c].phase = "annotating"
      /\ reviewerCycles[c].requests[i].step = "discussions"
      /\ reviewerCycles' =
           [reviewerCycles EXCEPT ![c].requests[i] =
              afterDiscussions(reviewerCycles[c].base[i], @, outcome)]
      /\ lastEvent' = Event("discussions", "reviewer", c)
      /\ UNCHANGED <<paletteVars, rain, merged, storage, settings, env, assignedVars, reviewer, reviewRows, weatherVars>>

\* Promise.all settled: buildReviewerInsights returns (or throws) and the
\* effect continues at line 284 (or 294)
ReviewerJoin ==
  \E c \in 1..Len(reviewerCycles) :
    LET cycle == reviewerCycles[c]
        settled == [i \in 1..Len(cycle.requests) |-> cycle.requests[i].result]
        highlights == IF ~hasToken \/ ~hasUsername THEN cycle.base ELSE settled
        insights == reviewerInsights(highlights)
    IN  /\ cycle.phase = "annotating"
        /\ anyRejected(cycle.requests) \/ allFulfilled(cycle.requests)
        /\ IF anyRejected(cycle.requests)
           THEN /\ reviewerCycles' =
                     [reviewerCycles EXCEPT ![c].phase = "done",
                        ![c].outcome = IF ~reviewerMayWrite(cycle) THEN "dropped"
                                       ELSE "rejected"]
                /\ reviewer' = IF ~reviewerMayWrite(cycle) THEN reviewer
                               ELSE [reviewer EXCEPT !.error = "Request failed",
                                                     !.loading = FALSE]
           ELSE /\ reviewerCycles' =
                     [reviewerCycles EXCEPT ![c].phase = "done",
                        ![c].result = insights.highlights,
                        ![c].outcome = IF ~reviewerMayWrite(cycle) THEN "dropped"
                                       ELSE "committed"]
                /\ reviewer' =
                     IF ~reviewerMayWrite(cycle) THEN reviewer
                     ELSE [reviewer EXCEPT
                             !.status = IF @.isNull THEN @
                                        ELSE [@ EXCEPT !.metrics = insights.metrics,
                                                       !.highlights = insights.highlights],
                             !.loading = FALSE]
        /\ lastEvent' = Event("join", "reviewer", c)
        /\ UNCHANGED <<paletteVars, rain, merged, storage, settings, env, assignedVars, reviewRows, weatherVars>>

InitReviewer ==
  /\ reviewer = [ mounted |-> FALSE,
                  status |-> [ isNull |-> TRUE,
                               metrics |-> [needsReview |-> -1, inReview |-> -1,
                                            reviewed |-> -1],
                               highlights |-> <<>> ],
                  loading |-> FALSE, error |-> "null" ]
  /\ reviewerCycles = <<>>

----------------------------------------------------------------------------
(* StatusBoard.tsx: the tabs and the merged-MR path.  `requests` counts    *)
(* the requests sent to the merged endpoint                                *)

MaxMergedLoads == 2

TabInputs == {"assigned", "reviewer", "merged"}

NoMerged ==
  [ activeTab |-> "assigned", isNull |-> TRUE, loading |-> FALSE,
    error |-> "null", requests |-> 0, inFlight |-> FALSE ]

\* lines 101-107
hasMergedEndpoint == hasToken

\* lines 336-341: the condition under which the tab effect calls loadMerged
mergedTabLoads(m) ==
  m.activeTab = "merged" /\ m.isNull /\ ~m.loading /\ hasToken

\* load of useMergedStatus around the loader of lines 183-185: without the
\* endpoint or the token the loader returns null and nothing is requested
loadMerged(m) ==
  IF ~hasMergedEndpoint \/ ~hasToken
  THEN [m EXCEPT !.loading = FALSE, !.error = "null"]
  ELSE [m EXCEPT !.loading = TRUE, !.error = "null",
                 !.requests = @ + 1, !.inFlight = TRUE]

\* a tab button is clicked (line 362); the tab effect runs (lines 336-341)
TabSelected ==
  \E tab \in TabInputs \ {merged.activeTab} :
    /\ merged.requests < MaxMergedLoads
    /\ LET selected == [merged EXCEPT !.activeTab = tab]
       IN  merged' = IF mergedTabLoads(selected) THEN loadMerged(selected)
                     ELSE selected
    /\ lastEvent' = Event(IF merged'.requests > merged.requests THEN "start" ELSE "tab",
                          "merged", merged'.requests)
    /\ UNCHANGED <<rain, storage, settings, env, assignedVars, reviewerVars, reviewRows, weatherVars, paletteVars>>

\* the request of the loader settled: the status is stored, or the error;
\* after an error the tab effect finds no status and loads again
MergedSettled ==
  \E ok \in BOOLEAN :
    /\ merged.inFlight
    /\ LET settled == IF ok THEN [merged EXCEPT !.isNull = FALSE, !.loading = FALSE,
                                                !.inFlight = FALSE]
                      ELSE [merged EXCEPT !.error = "Request failed",
                                          !.loading = FALSE, !.inFlight = FALSE]
       IN  merged' = IF mergedTabLoads(settled) /\ settled.requests < MaxMergedLoads
                     THEN loadMerged(settled)
                     ELSE settled
    /\ lastEvent' = Event(IF ok THEN "response" ELSE "failure", "merged", merged.requests)
    /\ UNCHANGED <<rain, storage, settings, env, assignedVars, reviewerVars, reviewRows, weatherVars, paletteVars>>

----------------------------------------------------------------------------
(* WeatherBadge.tsx: the rain helpers. An entry of hourly.time is <<ms>>   *)
(* for a parseable time and <<>> for one `new Date` reads as Invalid Date  *)

HOUR_MS == 3600000
DAY_MS == 86400000
RAIN_SAMPLE_LIMIT == 24

\* the start of the hour Date.now() lies in
thisHour == Now - (Now % HOUR_MS)

\* the offset of a time zone from UTC
zoneOffset(timeZone) == IF timeZone = "Europe/Amsterdam" THEN HOUR_MS ELSE 0

\* toLocaleTimeString([], {hour: 'numeric', minute: '2-digit', timeZone})
timeLabel(ms, timeZone) ==
  [ hour   |-> ((ms + zoneOffset(timeZone)) % DAY_MS) \div HOUR_MS,
    minute |-> ((ms + zoneOffset(timeZone)) % HOUR_MS) \div 60000 ]

\* toLocaleTimeString([], {hour: 'numeric', timeZone})
hourLabel(ms, timeZone) ==
  [hour |-> ((ms + zoneOffset(timeZone)) % DAY_MS) \div HOUR_MS]

NoHourly == [isNull |-> TRUE]

Hourly(time, probability, precipitation) ==
  [ isNull |-> FALSE, time |-> time, precipitation_probability |-> probability,
    precipitation |-> precipitation ]

\* hourly.precipitation?.[i] ?? 0
amountAt(hourly, i) ==
  IF hourly.precipitation = <<>> THEN 0 ELSE hourly.precipitation[1][i]

\* line 1029
rainExpected_probabilityOnly(chance, amount) == chance >= 40

rainExpected(chance, amount) == chance >= 40 \/ amount > 0

\* lines 1026-1034: the loop from index i on
RECURSIVE nextRainFrom(_, _, _)
nextRainFrom(hourly, timeZone, i) ==
  IF i > Len(hourly.time) THEN <<>>
  ELSE IF /\ rainExpected(hourly.precipitation_probability[1][i], amountAt(hourly, i))
          /\ hourly.time[i] # <<>>
       THEN <<timeLabel(hourly.time[i][1], timeZone)>>
       ELSE nextRainFrom(hourly, timeZone, i + 1)

\* lines 1021-1036; null is <<>>
extractNextRain(hourly, timeZone) ==
  IF hourly.isNull THEN <<>>
  ELSE IF hourly.time = <<>> \/ hourly.precipitation_probability = <<>> THEN <<>>
  ELSE nextRainFrom(hourly, timeZone, 1)

\* lines 1064-1074: the loop from index i on, samples collected so far
RECURSIVE rainSamplesFrom(_, _, _, _)
rainSamplesFrom(hourly, timeZone, i, samples) ==
  IF i > Len(hourly.time) \/ Len(samples) >= RAIN_SAMPLE_LIMIT THEN samples
  ELSE IF hourly.time[i] = <<>> THEN rainSamplesFrom(hourly, timeZone, i + 1, samples)
  ELSE IF hourly.time[i][1] < Now THEN rainSamplesFrom(hourly, timeZone, i + 1, samples)
  ELSE rainSamplesFrom(hourly, timeZone, i + 1,
         Append(samples,
                [ time |-> hourly.time[i],
                  probability |-> hourly.precipitation_probability[1][i],
                  amount |-> amountAt(hourly, i),
                  label |-> hourLabel(hourly.time[i][1], timeZone) ]))

\* lines 1056-1077; undefined is <<>>
buildRainSeries(hourly, timeZone) ==
  IF hourly.isNull THEN <<>>
  ELSE IF hourly.time = <<>> \/ hourly.precipitation_probability = <<>> THEN <<>>
  ELSE rainSamplesFrom(hourly, timeZone, 1, <<>>)

\* lines 1079-1093; null is <<>>
computeNextRainMinutes(samples) ==
  LET found == {i \in 1..Len(samples) :
                  /\ samples[i].time # <<>>
                  /\ samples[i].time[1] >= Now
                  /\ (samples[i].probability >= 40 \/ samples[i].amount > 0)}
  IN  IF found = {} THEN <<>>
      ELSE LET next == samples[CHOOSE i \in found : \A j \in found : i <= j]
           IN  <<(next.time[1] - Now) \div 60000>>

----------------------------------------------------------------------------
(* Hourly blocks: consecutive hours from two hours ago or from the next    *)
(* hour on, every entry with a parseable or an unparseable time            *)

HourlyEntries ==
  [valid : BOOLEAN, chance : {10, 39, 40}, amount : {0, 1}]

HourlyOf(start, entries, withAmounts) ==
  Hourly([i \in 1..Len(entries) |->
            IF entries[i].valid THEN <<start + (i - 1) * HOUR_MS>> ELSE <<>>],
         <<[i \in 1..Len(entries) |-> entries[i].chance]>>,
         IF withAmounts THEN <<[i \in 1..Len(entries) |-> entries[i].amount]>> ELSE <<>>)

\* dry hours from the next hour on, with rain in the hour after the last
\* sample buildRainSeries collects
DistantRain ==
  HourlyOf(thisHour + HOUR_MS,
           [i \in 1..(RAIN_SAMPLE_LIMIT + 1) |->
              [valid |-> TRUE, chance |-> IF i > RAIN_SAMPLE_LIMIT THEN 90 ELSE 10,
               amount |-> 0]],
           TRUE)

HourlyInputs ==
  { HourlyOf(start, entries, withAmounts) :
      start \in {thisHour - HOUR_MS, thisHour + HOUR_MS},
      entries \in SeqsUpTo(HourlyEntries, MaxHours) \ {<<>>},
      withAmounts \in BOOLEAN }
  \cup { NoHourly, DistantRain,
         Hourly(<<>>, <<<<>>>>, <<<<>>>>),
         Hourly(<<<<thisHour + HOUR_MS>>>>, <<>>, <<<<1>>>>),
         Hourly(<<<<thisHour>>, <<thisHour + HOUR_MS>>, <<thisHour + 2 * HOUR_MS>>>>,
                <<<<10, 45, 90>>>>, <<<<0, 0, 2>>>>) }

NoRain == [applied |-> FALSE]

\* the three helpers applied to one hourly block, as setWeather applies them
\* (lines 703-717)
ApplyRainHelpers ==
  \E hourly \in HourlyInputs, timeZone \in {"Europe/Amsterdam", "UTC"} :
    /\ ~rain.applied
    /\ rain' = [ applied |-> TRUE, hourly |-> hourly, timeZone |-> timeZone,
                 nextRain |-> extractNextRain(hourly, timeZone),
                 rainSeries |-> buildRainSeries(hourly, timeZone),
                 nextRainMinutes |->
                   computeNextRainMinutes(buildRainSeries(hourly, timeZone)) ]
    /\ lastEvent' = Event("rain", "weather", 0)
    /\ UNCHANGED <<merged, storage, settings, env, assignedVars, reviewerVars, reviewRows, weatherVars, paletteVars>>

----------------------------------------------------------------------------
(* WeatherBadge.tsx: the widget state and its fetch effect *)

NoCoords == [isNull |-> TRUE]
Coords(latitude, longitude) ==
  [isNull |-> FALSE, latitude |-> latitude, longitude |-> longitude]

NoWeather == [isNull |-> TRUE]
NoSummary == [isNull |-> TRUE]

\* staticLocation prop: absent, or coordinates with an optional label
StaticLocationInputs ==
  { [isNull |-> TRUE],
    [isNull |-> FALSE, latitude |-> 52, longitude |-> 5, label |-> "Home"],
    [isNull |-> FALSE, latitude |-> 52, longitude |-> 5, label |-> " "],
    [isNull |-> FALSE, latitude |-> 52, longitude |-> 5, label |-> ""] }

\* String.prototype.trim on the labels of StaticLocationInputs
trimLabel(label) == IF label = " " THEN "" ELSE label

TimeZoneInputs == {"Europe/Amsterdam", "UTC"}

\* the forecast response: the `current` block of weatherJson
ForecastInputs ==
  { [ temperature_2m |-> <<12>>, weather_code |-> <<3>>,
      hourly |-> Hourly(<<<<thisHour + HOUR_MS>>>>, <<<<10>>>>, <<<<0>>>>) ],
    [ temperature_2m |-> <<>>, weather_code |-> <<61>>,
      hourly |-> Hourly(<<<<thisHour - HOUR_MS>>, <<thisHour + HOUR_MS>>>>,
                        <<<<90, 40>>>>, <<<<2, 0>>>>) ] }

\* the reverse geocoding response; a response that is not ok reads as {}
ReverseInputs ==
  { [city |-> "Utrecht", locality |-> "", principalSubdivision |-> "", countryName |-> "NL"],
    [city |-> "", locality |-> "Zeist", principalSubdivision |-> "UT", countryName |-> "NL"],
    [city |-> "", locality |-> "", principalSubdivision |-> "UT", countryName |-> "NL"],
    [city |-> "", locality |-> "", principalSubdivision |-> "", countryName |-> "NL"],
    [city |-> "", locality |-> "", principalSubdivision |-> "", countryName |-> ""] }

\* what a fetch cycle can settle with: both responses, a forecast response
\* that is not ok, a rejected fetch
WeatherOutcomes ==
  { [kind |-> "ok", forecast |-> f, reverse |-> r] :
      f \in ForecastInputs, r \in ReverseInputs }
  \cup { [kind |-> "not-ok"], [kind |-> "network-error"] }

\* lines 703-719: the snapshot, its fields of the `current` block and its
\* rain fields
weatherInfo(forecast, timeZone) ==
  [ isNull |-> FALSE,
    temperature |-> forecast.temperature_2m,
    code |-> forecast.weather_code,
    nextRain |-> extractNextRain(forecast.hourly, timeZone),
    rainSeries |-> buildRainSeries(forecast.hourly, timeZone),
    nextRainMinutes |-> computeNextRainMinutes(buildRainSeries(forecast.hourly, timeZone)) ]

\* lines 570-599, for a code that is null (<<>>), 3, 61 or another one
getWeatherDescription(code) ==
  IF code = <<>> THEN "-"
  ELSE IF code[1] = 3 THEN "Overcast"
  ELSE IF code[1] = 61 THEN "Light rain"
  ELSE "Weather update"

\* line 746: weather?.code of the state, whatever the status
details(w) == getWeatherDescription(IF w.weather.isNull THEN <<>> ELSE w.weather.code)

\* line 747
showContent(w) == w.status = "ready" /\ ~w.weather.isNull

\* lines 721-729
resolvedLocationLabel(staticLocation, reverse) ==
  LET configuredLabel == IF staticLocation.isNull THEN ""
                         ELSE trimLabel(staticLocation.label)
  IN  IF configuredLabel # "" THEN configuredLabel
      ELSE IF reverse.city # "" THEN reverse.city
      ELSE IF reverse.locality # "" THEN reverse.locality
      ELSE IF reverse.principalSubdivision # "" THEN reverse.principalSubdivision
      ELSE IF reverse.countryName # "" THEN reverse.countryName
      ELSE "Your area"

\* lines 747-762: the value the summary effect hands to onSummaryChange
summaryOf_anySnapshot(w) ==
  IF ~w.weather.isNull
  THEN [ isNull |-> FALSE, location |-> w.locationLabel,
         temperature |-> w.weather.temperature,
         description |-> IF w.weather.nextRain # <<>>
                         THEN [rainAround |-> w.weather.nextRain]
                         ELSE [label |-> details(w)],
         icon |-> details(w) ]
  ELSE NoSummary

summaryOf(w) ==
  IF showContent(w)
  THEN [ isNull |-> FALSE, location |-> w.locationLabel,
         temperature |-> w.weather.temperature,
         description |-> IF w.weather.nextRain # <<>>
                         THEN [rainAround |-> w.weather.nextRain]
                         ELSE [label |-> details(w)],
         icon |-> details(w) ]
  ELSE NoSummary

\* lines 819-821, 855-867 and 1008-1012: the header of the card and the
\* line under it
rendered(w) ==
  [ location |-> w.locationLabel,
    subtitle |-> IF ~showContent(w) THEN [text |-> "Waiting for forecast"]
                 ELSE IF w.weather.nextRain # <<>> THEN [rainAround |-> w.weather.nextRain]
                 ELSE [text |-> "Skies stay dry for now"],
    temperature |-> IF showContent(w) THEN w.weather.temperature ELSE <<>>,
    details |-> details(w),
    message |-> IF showContent(w) THEN "none"
                ELSE IF w.status = "loading" THEN "Fetching local weather"
                ELSE IF w.status = "idle" THEN "Waiting for location permission"
                ELSE w.error ]

\* the `cancelled` tests of lines 701 and 733
weatherMayWrite(cycle) == ~cycle.cancelled

\* lines 689-692: one run of the fetch effect, its two requests carry the
\* coordinates of that run
NewWeatherCycle(coords) ==
  [ cancelled |-> FALSE, phase |-> "fetching", outcome |-> "none", coords |-> coords,
    reverse |-> <<>> ]

usesGeolocation_always(staticLocation) == TRUE

\* lines 677-680: the geolocation effect returns early with a static location
usesGeolocation(staticLocation) == staticLocation.isNull

\* the fetch effect runs for the coordinates of w: line 688
startWeatherCycle(w) == [w EXCEPT !.status = "loading"]

\* the component mounts: useState initial values, then the staticLocation
\* effect (lines 642-652), the geolocation effect (lines 654-680), the summary
\* effect, and with coordinates set the fetch effect (lines 682-689)
WeatherMount ==
  /\ ~weather.mounted
  /\ Len(weatherCycles) < MaxCycles
  /\ LET static == weatherProps.staticLocation
         fresh == [ mounted |-> TRUE, status |-> "idle", coords |-> NoCoords,
                    weather |-> NoWeather, locationLabel |-> "Your area",
                    error |-> "null", geolocation |-> "idle" ]
         afterStatic ==
           IF static.isNull THEN fresh
           ELSE [fresh EXCEPT !.coords = Coords(static.latitude, static.longitude),
                              !.locationLabel = IF static.label # "" THEN static.label
                                                ELSE @]
         afterGeolocation ==
           IF ~usesGeolocation(static) THEN afterStatic
           ELSE IF ~weatherProps.hasGeolocation
           THEN [afterStatic EXCEPT !.error = "Geolocation is not supported",
                                    !.status = "error"]
           ELSE [afterStatic EXCEPT !.status = "loading", !.geolocation = "pending"]
     IN  IF afterGeolocation.coords.isNull
         THEN /\ weather' = afterGeolocation
              /\ weatherCycles' = weatherCycles
              /\ lastEvent' = Event("mount", "weather", 0)
         ELSE /\ weather' = startWeatherCycle(afterGeolocation)
              /\ weatherCycles' =
                   Append(weatherCycles, NewWeatherCycle(afterGeolocation.coords))
              /\ lastEvent' = Event("start", "weather", Len(weatherCycles) + 1)
  /\ weatherSummary' = NoSummary
  /\ UNCHANGED <<paletteVars, rain, merged, storage, settings, env, assignedVars, reviewerVars, reviewRows, weatherProps>>

\* navigator.geolocation reported a position: lines 663-668; the new coords
\* object re-triggers the fetch effect
GeolocationSucceeded ==
  /\ weather.mounted
  /\ weather.geolocation = "pending"
  /\ Len(weatherCycles) < MaxCycles
  /\ weather' = startWeatherCycle([weather EXCEPT !.coords = Coords(51, 4),
                                                  !.geolocation = "done"])
  /\ weatherCycles' = Append(weatherCycles, NewWeatherCycle(Coords(51, 4)))
  /\ weatherSummary' = summaryOf(weather')
  /\ lastEvent' = Event("start", "weather", Len(weatherCycles) + 1)
  /\ UNCHANGED <<paletteVars, rain, merged, storage, settings, env, assignedVars, reviewerVars, reviewRows, weatherProps>>

\* navigator.geolocation reported an error: lines 669-672
GeolocationFailed ==
  /\ weather.mounted
  /\ weather.geolocation = "pending"
  /\ weather' = [weather EXCEPT !.error = "User denied Geolocation",
                                !.status = "error", !.geolocation = "done"]
  /\ weatherSummary' = summaryOf(weather')
  /\ lastEvent' = Event("geolocation-error", "weather", 0)
  /\ UNCHANGED <<paletteVars, rain, merged, storage, settings, env, assignedVars, reviewerVars, reviewRows, weatherProps, weatherCycles>>

\* the timeZone prop changes: with coordinates set the fetch effect is
\* re-triggered (cleanup of the running cycle, then a new cycle)
TimeZoneChanged ==
  \E tz \in TimeZoneInputs \ {weatherProps.timeZone} :
    /\ weather.mounted
    /\ ~weather.coords.isNull
    /\ Len(weatherCycles) < MaxCycles
    /\ weatherProps' = [weatherProps EXCEPT !.timeZone = tz]
    /\ weather' = startWeatherCycle(weather)
    /\ weatherCycles' =
         Append([weatherCycles EXCEPT ![Len(weatherCycles)].cancelled = TRUE],
                NewWeatherCycle(weather.coords))
    /\ weatherSummary' = summaryOf(weather')
    /\ lastEvent' = Event("start", "weather", Len(weatherCycles) + 1)
    /\ UNCHANGED <<paletteVars, rain, merged, storage, settings, env, assignedVars, reviewerVars, reviewRows>>

\* the view unmounts: the cleanup of the current cycle runs
WeatherUnmount ==
  /\ weather.mounted
  /\ weather' = [weather EXCEPT !.mounted = FALSE, !.geolocation = "idle"]
  /\ weatherCycles' =
       IF weather.coords.isNull THEN weatherCycles
       ELSE [weatherCycles EXCEPT ![Len(weatherCycles)].cancelled = TRUE]
  /\ lastEvent' = Event("cleanup", "weather", Len(weatherCycles))
  /\ UNCHANGED <<paletteVars, rain, merged, storage, settings, env, assignedVars, reviewerVars, reviewRows, weatherProps, weatherSummary>>

\* both fetches settled and the bodies were read: lines 692-736
WeatherSettled ==
  \E c \in 1..Len(weatherCycles), outcome \in WeatherOutcomes :
    /\ weatherCycles[c].phase = "fetching"
    /\ IF ~weatherMayWrite(weatherCycles[c])
       THEN /\ weather' = weather
            /\ weatherSummary' = weatherSummary
            /\ weatherCycles' = [weatherCycles EXCEPT ![c].phase = "done",
                                                       ![c].outcome = "dropped"]
       ELSE IF outcome.kind = "ok"
       THEN /\ weather' =
                 [weather EXCEPT
                    !.weather = weatherInfo(outcome.forecast, weatherProps.timeZone),
                    !.locationLabel = resolvedLocationLabel(weatherProps.staticLocation,
                                                            outcome.reverse),
                    !.error = "null",
                    !.status = "ready"]
            /\ weatherSummary' = summaryOf(weather')
            /\ weatherCycles' = [weatherCycles EXCEPT ![c].phase = "done",
                                                       ![c].outcome = "committed",
                                                       ![c].reverse = <<outcome.reverse>>]
       ELSE /\ weather' =
                 [weather EXCEPT
                    !.error = IF outcome.kind = "not-ok" THEN "Weather request failed"
                              ELSE "Failed to fetch",
                    !.status = "error"]
            /\ weatherSummary' = summaryOf(weather')
            /\ weatherCycles' = [weatherCycles EXCEPT ![c].phase = "done",
                                                       ![c].outcome = "failed"]
    /\ lastEvent' = Event(IF outcome.kind = "ok" THEN "response" ELSE "failure",
                          "weather", c)
    /\ UNCHANGED <<paletteVars, rain, merged, storage, settings, env, assignedVars, reviewerVars, reviewRows, weatherProps>>

InitWeather ==
  /\ weatherProps \in [ timeZone : {"Europe/Amsterdam"},
                         staticLocation : StaticLocationInputs,
                         hasGeolocation : BOOLEAN ]
  /\ weather = [ mounted |-> FALSE, status |-> "idle", coords |-> NoCoords,
                 weather |-> NoWeather, locationLabel |-> "Your area",
                 error |-> "null", geolocation |-> "idle" ]
  /\ weatherCycles = <<>>
  /\ weatherSummary = NoSummary

----------------------------------------------------------------------------
(* Texts: a string is the sequence of its characters (the arrow of the     *)
(* highlight meta line is the one character "->")                          *)

UpperToLower ==
  ("A" :> "a") @@ ("B" :> "b") @@ ("C" :> "c") @@ ("D" :> "d") @@ ("E" :> "e") @@ ("F" :> "f")
  @@ ("G" :> "g") @@ ("H" :> "h") @@ ("I" :> "i") @@ ("J" :> "j") @@ ("K" :> "k") @@ ("L" :> "l")
  @@ ("M" :> "m") @@ ("N" :> "n") @@ ("O" :> "o") @@ ("P" :> "p") @@ ("Q" :> "q") @@ ("R" :> "r")
  @@ ("S" :> "s") @@ ("T" :> "t") @@ ("U" :> "u") @@ ("V" :> "v") @@ ("W" :> "w") @@ ("X" :> "x")
  @@ ("Y" :> "y") @@ ("Z" :> "z")

\* String.prototype.toLowerCase
toLowerCase(text) ==
  [i \in 1..Len(text) |-> IF text[i] \in DOMAIN UpperToLower THEN UpperToLower[text[i]]
                          ELSE text[i]]

\* String.prototype.trim
trim(text) ==
  LET inked == {i \in 1..Len(text) : text[i] # " "}
  IN  IF inked = {} THEN <<>>
      ELSE SubSeq(text, CHOOSE i \in inked : \A j \in inked : i <= j,
                        CHOOSE i \in inked : \A j \in inked : i >= j)

\* String.prototype.includes
includes(text, needle) ==
  \/ needle = <<>>
  \/ \E i \in 0..(Len(text) - Len(needle)) :
       text[i + 1] = needle[1] /\ SubSeq(text, i + 1, i + Len(needle)) = needle

\* Array.prototype.join
RECURSIVE join(_, _)
join(texts, separator) ==
  IF Len(texts) = 0 THEN <<>>
  ELSE IF Len(texts) = 1 THEN texts[1]
  ELSE texts[1] \o separator \o join(Tail(texts), separator)

Digits == <<"0", "1", "2", "3", "4", "5", "6", "7", "8", "9">>

\* the decimal text of a number inside a template literal
RECURSIVE numberText(_)
numberText(n) ==
  IF n < 10 THEN <<Digits[n + 1]>>
  ELSE numberText(n \div 10) \o <<Digits[(n % 10) + 1]>>

\* encodeURIComponent on letters, digits and spaces
encodeURIComponent(text) ==
  join([i \in 1..Len(text) |-> IF text[i] = " " THEN <<"%", "2", "0">> ELSE <<text[i]>>],
       <<>>)

----------------------------------------------------------------------------
(* App (unnamed/part_001): the registered command list *)

Command(id, label, description, keywords, href, action) ==
  [ id |-> id, label |-> label, description |-> description, keywords |-> keywords,
    href |-> href, action |-> action ]

Link(label, description, url) == [label |-> label, description |-> description, url |-> url]

\* the bookmark configurations (links.local.json / links.example.json): none,
\* two bookmarks of which one has no description, and ManyLinks bookmarks
LinkConfigs ==
  { <<>>,
    << Link(<<"D", "o", "c", "s">>, <<<<"T", "e", "a", "m", " ", "h", "a", "n", "d", "b", "o", "o", "k">>>>, <<"h", "t", "t", "p", "s", ":", "/", "/", "d", "o", "c", "s", ".", "e", "x", "a", "m", "p", "l", "e">>),
       Link(<<"M", "a", "i", "l">>, <<>>, <<"h", "t", "t", "p", "s", ":", "/", "/", "m", "a", "i", "l", ".", "e", "x", "a", "m", "p", "l", "e">>) >>,
    [ i \in 1..ManyLinks |->
        Link(<<"S", "i", "t", "e", " ">> \o numberText(i), <<<<"P", "i", "n", "n", "e", "d", " ", "p", "a", "g", "e">>>>, <<"h", "t", "t", "p", "s", ":", "/", "/", "s", "i", "t", "e", ".", "e", "x", "a", "m", "p", "l", "e", "/">> \o numberText(i)) ] }

\* lines 231-237
linkItems(favorites) ==
  [ i \in 1..Len(favorites) |->
      Command(<<"l", "i", "n", "k", "-">> \o favorites[i].label, favorites[i].label,
              favorites[i].description, << <<<<"b", "o", "o", "k", "m", "a", "r", "k">>, <<"l", "i", "n", "k">>>> >>,
              <<favorites[i].url>>, "undefined") ]

\* the merge request fields the highlight copies as they are: title, web_url
\* and the branches of the meta line, for the merge request numbered n
mrTitle(n) == <<"F", "i", "x", " ", "i", "s", "s", "u", "e", " ">> \o numberText(n)
mrWebUrl(n) == <<"h", "t", "t", "p", "s", ":", "/", "/", "g", "i", "t", "l", "a", "b", ".", "c", "o", "m", "/", "m", "r", "/">> \o numberText(n)
mrMeta(n) == <<"f", "e", "a", "t", "u", "r", "e", "-">> \o numberText(n) \o <<" ", "->", " ", "m", "a", "i", "n">>

\* the tags of buildHighlightTags as texts
tagText(tag) ==
  CASE tag = "Pipeline" -> <<"P", "i", "p", "e", "l", "i", "n", "e">>
    [] tag = "Conflicts" -> <<"C", "o", "n", "f", "l", "i", "c", "t", "s">>
    [] tag = "Draft" -> <<"D", "r", "a", "f", "t">>
    [] tag = "Stale" -> <<"S", "t", "a", "l", "e">>

\* lines 239-267
gitlabCommands(highlights) ==
  << Command(<<"g", "i", "t", "l", "a", "b", "-", "a", "s", "s", "i", "g", "n", "e", "d">>, <<"G", "i", "t", "L", "a", "b", ":", " ", "A", "s", "s", "i", "g", "n", "e", "d", " ", "m", "e", "r", "g", "e", " ", "r", "e", "q", "u", "e", "s", "t", "s">>,
             <<<<"O", "p", "e", "n", " ", "y", "o", "u", "r", " ", "a", "s", "s", "i", "g", "n", "e", "d", " ", "M", "R", "s", " ", "d", "a", "s", "h", "b", "o", "a", "r", "d">>>>, <<>>, <<<<"a", "s", "s", "i", "g", "n", "e", "d">>>>, "undefined"),
     Command(<<"g", "i", "t", "l", "a", "b", "-", "c", "o", "n", "f", "l", "i", "c", "t", "s">>, <<"G", "i", "t", "L", "a", "b", ":", " ", "C", "o", "n", "f", "l", "i", "c", "t", "s">>,
             <<<<"M", "R", "s", " ", "w", "i", "t", "h", " ", "c", "o", "n", "f", "l", "i", "c", "t", "s">>>>, <<>>, <<<<"c", "o", "n", "f", "l", "i", "c", "t", "s">>>>, "undefined"),
     Command(<<"g", "i", "t", "l", "a", "b", "-", "s", "t", "a", "l", "e">>, <<"G", "i", "t", "L", "a", "b", ":", " ", "S", "t", "a", "l", "e", " ", ">", "4", "8", "h">>,
             <<<<"O", "l", "d", "e", "r", " ", "a", "s", "s", "i", "g", "n", "e", "d", " ", "M", "R", "s">>>>, <<>>, <<<<"s", "t", "a", "l", "e">>>>, "undefined") >>
  \o [ i \in 1..Len(highlights) |->
         Command(<<"m", "r", "-">> \o mrWebUrl(highlights[i].title), mrTitle(highlights[i].title),
                 <<mrMeta(highlights[i].title)>>,
                 << <<<<"m", "r">>, <<"m", "e", "r", "g", "e">>, <<"r", "e", "q", "u", "e", "s", "t">>>>
                    \o [t \in 1..Len(highlights[i].tags) |-> tagText(highlights[i].tags[t])] >>,
                 <<mrWebUrl(highlights[i].title)>>, "undefined") ]

\* lines 269-284
weatherCommands ==
  << Command(<<"w", "e", "a", "t", "h", "e", "r", "-", "t", "o", "g", "g", "l", "e", "-", "o", "n">>, <<"S", "h", "o", "w", " ", "d", "e", "t", "a", "i", "l", "e", "d", " ", "w", "e", "a", "t", "h", "e", "r">>, <<<<"E", "x", "p", "a", "n", "d", " ", "t", "h", "e", " ", "m", "u", "l", "t", "i", "-", "d", "a", "y", " ", "v", "i", "e", "w">>>>, <<>>, <<>>, "weather-on"),
     Command(<<"w", "e", "a", "t", "h", "e", "r", "-", "t", "o", "g", "g", "l", "e", "-", "o", "f", "f">>, <<"H", "i", "d", "e", " ", "d", "e", "t", "a", "i", "l", "e", "d", " ", "w", "e", "a", "t", "h", "e", "r">>, <<>>, <<>>, <<>>, "weather-off") >>

\* line 286
commandItems(favorites, highlights) ==
  linkItems(favorites) \o gitlabCommands(highlights) \o weatherCommands

\* lines 289-291: null, or the label of the web search entry
webSearchFallbackLabel(query) ==
  IF trim(query) # <<>> THEN <<<<"S", "e", "a", "r", "c", "h", " ", "w", "e", "b", " ", "f", "o", "r", " ">> \o trim(query)>> ELSE <<>>

\* lines 292-294: null, or the function opening the search page
webSearchFallback(query) ==
  IF trim(query) # <<>> THEN "web-search" ELSE "null"

----------------------------------------------------------------------------
(* CommandPalette.tsx *)

DEFAULT_ITEMS == 12
RESULT_LIMIT == 24

\* line 45
normalizedQuery(query) == toLowerCase(trim(query))

haystack_labelOnly(item) == toLowerCase(item.label)

\* lines 50-56
haystack(item) ==
  toLowerCase(
    join(<<item.label, IF item.description = <<>> THEN <<>> ELSE item.description[1]>>
         \o (IF item.keywords = <<>> THEN <<>> ELSE item.keywords[1]),
         <<" ">>))

\* Array.prototype.filter
RECURSIVE filterSeq(_, _)
filterSeq(items, keep) ==
  IF items = <<>> THEN <<>>
  ELSE (IF keep[1] THEN <<items[1]>> ELSE <<>>)
       \o filterSeq(Tail(items), Tail(keep))

filtered_defaultCapOnly(commands, normalized) == SliceTo(commands, DEFAULT_ITEMS)

\* lines 46-63
filtered(commands, normalized) ==
  IF normalized = <<>> THEN SliceTo(commands, DEFAULT_ITEMS)
  ELSE SliceTo(filterSeq(commands,
                         [i \in 1..Len(commands) |-> includes(haystack(commands[i]), normalized)]),
               RESULT_LIMIT)

showFallback_whenever(normalized, results, fallbackLabel, fallbackAction) ==
  normalized # <<>> /\ fallbackLabel # <<>> /\ fallbackAction # "null"

\* line 65; an empty label is falsy
showFallback(normalized, results, fallbackLabel, fallbackAction) ==
  /\ normalized # <<>>
  /\ Len(results) = 0
  /\ fallbackLabel # <<>> /\ fallbackLabel[1] # <<>>
  /\ fallbackAction # "null"

\* lines 66-75
list(commands, query, fallbackLabel, fallbackAction) ==
  LET normalized == normalizedQuery(query)
      results == filtered(commands, normalized)
  IN  IF showFallback(normalized, results, fallbackLabel, fallbackAction)
      THEN results \o << Command(<<"f", "a", "l", "l", "b", "a", "c", "k">>,
                                 IF fallbackLabel = <<>> THEN <<>> ELSE fallbackLabel[1],
                                 <<>>, <<>>, <<>>,
                                 IF fallbackAction = "null" THEN "undefined" ELSE fallbackAction) >>
      ELSE results

-----------------------------------------------------------------------------
(* useLocalStorage and the settings the App keeps with it.  A stored entry *)
(* is <<>> when the key is absent and <<text>> otherwise; a value is a     *)
(* boolean, a string or null                                               *)

JsonBoolean(b) == [type |-> "boolean", bool |-> b, text |-> <<>>]
JsonString(text) == [type |-> "string", bool |-> FALSE, text |-> text]
JsonNull == [type |-> "null", bool |-> FALSE, text |-> <<>>]
SyntaxError == [type |-> "SyntaxError", bool |-> FALSE, text |-> <<>>]

\* the escapes of a JSON string literal
RECURSIVE escaped(_)
escaped(text) ==
  IF text = <<>> THEN <<>>
  ELSE (IF Head(text) \in {"\"", "\\"} THEN <<"\\", Head(text)>> ELSE <<Head(text)>>)
       \o escaped(Tail(text))

\* the inverse on the inside of a literal: <<text>>, or <<>> for a bare
\* quote or a backslash that starts no escape
RECURSIVE unescaped(_)
unescaped(text) ==
  IF text = <<>> THEN <<<<>>>>
  ELSE IF Head(text) = "\"" THEN <<>>
  ELSE IF Head(text) = "\\"
  THEN IF Len(text) >= 2 /\ text[2] \in {"\"", "\\"} /\ unescaped(Tail(Tail(text))) # <<>>
       THEN <<<<text[2]>> \o unescaped(Tail(Tail(text)))[1]>>
       ELSE <<>>
  ELSE IF unescaped(Tail(text)) # <<>>
  THEN <<<<Head(text)>> \o unescaped(Tail(text))[1]>>
  ELSE <<>>

\* JSON.stringify of a value
stringify(value) ==
  IF value.type = "boolean" THEN (IF value.bool THEN <<"t", "r", "u", "e">> ELSE <<"f", "a", "l", "s", "e">>)
  ELSE IF value.type = "null" THEN <<"n", "u", "l", "l">>
  ELSE <<"\"">> \o escaped(value.text) \o <<"\"">>

\* JSON.parse of a text: the value, or SyntaxError when it throws
parse(text) ==
  LET t == trim(text)
  IN  IF t = <<"t", "r", "u", "e">> THEN JsonBoolean(TRUE)
      ELSE IF t = <<"f", "a", "l", "s", "e">> THEN JsonBoolean(FALSE)
      ELSE IF t = <<"n", "u", "l", "l">> THEN JsonNull
      ELSE IF Len(t) >= 2 /\ t[1] = "\"" /\ t[Len(t)] = "\""
              /\ unescaped(SubSeq(t, 2, Len(t) - 1)) # <<>>
      THEN JsonString(unescaped(SubSeq(t, 2, Len(t) - 1))[1])
      ELSE SyntaxError

initialValue_unparsed(entry, defaultValue) ==
  IF entry = <<>> \/ entry[1] = <<>> THEN defaultValue
  ELSE JsonString(entry[1])

\* lines 1168-1181: the initial state of the hook
initialValue(entry, defaultValue) ==
  IF entry = <<>> \/ entry[1] = <<>> THEN defaultValue
  ELSE IF parse(entry[1]) = SyntaxError THEN defaultValue
  ELSE parse(entry[1])

\* lines 1183-1185: the effect of the hook, run at mount and when the
\* value changed
stored(entries, key, value) == [entries EXCEPT ![key] = <<stringify(value)>>]

DETAILS_KEY == "homebase-weather-details"
NAME_KEY == "homebase-display-name"
TIME_ZONE_KEY == "homebase-timezone"
StorageKeys == {DETAILS_KEY, NAME_KEY, TIME_ZONE_KEY}

\* Intl.DateTimeFormat().resolvedOptions().timeZone of the browser
SYSTEM_TIME_ZONE == <<"A", "s", "i", "a", "/", "T", "o", "k", "y", "o">>

\* personalizationConfig.displayName is not set
DEFAULT_DISPLAY_NAME == JsonString(<<"C", "a", "s", "p", "e", "r">>)

\* the identifiers Intl.DateTimeFormat accepts, in lower case: it compares
\* without regard to case
KnownTimeZones == {<<"u", "t", "c">>, <<"a", "s", "i", "a", "/", "t", "o", "k", "y", "o">>, <<"e", "u", "r", "o", "p", "e", "/", "l", "o", "n", "d", "o", "n">>}

\* new Intl.DateTimeFormat('en-US', { timeZone }) does not throw
isValidTimeZone(text) == toLowerCase(text) \in KnownTimeZones

\* App line 39
normalizedTimeZone(setting) ==
  LET typed == IF setting.type = "null" THEN <<>> ELSE setting.text
  IN  IF trim(typed) # <<>> THEN trim(typed) ELSE SYSTEM_TIME_ZONE

resolvedTimeZone_untrimmed(setting) ==
  IF setting.type = "string" /\ isValidTimeZone(trim(setting.text)) THEN setting.text
  ELSE SYSTEM_TIME_ZONE

\* App lines 40-47
resolvedTimeZone(setting) ==
  IF isValidTimeZone(normalizedTimeZone(setting)) THEN normalizedTimeZone(setting)
  ELSE SYSTEM_TIME_ZONE

\* App lines 50-57: what the effect sets timeZoneValid to
timeZoneValidFor(setting) == isValidTimeZone(normalizedTimeZone(setting))

\* the settings state of the App for a time zone setting: `typed` observes
\* the text of the last input event of the time zone field
settingsFor(current, setting, typed) ==
  [current EXCEPT !.timeZoneSetting = setting,
                  !.resolvedTimeZone = resolvedTimeZone(setting),
                  !.timeZoneValid = timeZoneValidFor(setting),
                  !.typed = typed]

DefaultSettings ==
  [ mounted |-> TRUE, displayName |-> DEFAULT_DISPLAY_NAME,
    timeZoneSetting |-> JsonString(SYSTEM_TIME_ZONE),
    resolvedTimeZone |-> SYSTEM_TIME_ZONE, timeZoneValid |-> TRUE, typed |-> <<>> ]

\* the storage of a mounted App that has its default settings
MountedStorage ==
  [ key \in StorageKeys |->
      IF key = DETAILS_KEY THEN <<stringify(JsonBoolean(FALSE))>>
      ELSE IF key = NAME_KEY THEN <<stringify(DEFAULT_DISPLAY_NAME)>>
      ELSE <<stringify(JsonString(SYSTEM_TIME_ZONE))>> ]

NoActivation == [kind |-> "idle", id |-> <<>>, opened |-> <<>>]

InitPaletteState ==
  /\ links \in LinkConfigs
  /\ palette = [open |-> FALSE, query |-> <<>>, activeIndex |-> 0]
  /\ detailedWeather = FALSE
  /\ activation = NoActivation

----------------------------------------------------------------------------
(* The insight builder applied to every payload of InsightPayloads *)

InitInsights ==
  /\ env \in {e \in EnvInputs : e.VITE_GITLAB_USERNAME = "me"}
  /\ InitAssigned
  /\ InitReviewer
  /\ InitWeather
  /\ weatherProps.staticLocation.isNull /\ weatherProps.hasGeolocation
  /\ InitPaletteState /\ links = <<>>
  /\ reviewRows = <<>>
  /\ rain = NoRain
  /\ merged = NoMerged
  /\ storage = MountedStorage /\ settings = DefaultSettings
  /\ lastEvent = Event("init", "none", 0)

NextInsights ==
  \/ AssignedMount
  \/ AssignedFetched(InsightPayloads)
  \/ AssignedCommit

SpecInsights == InitInsights /\ [][NextInsights]_vars

----------------------------------------------------------------------------
(* C1: the highlights of buildGitLabInsights are the first 10 merge        *)
(* requests in the order of descending priority score (+3 failed pipeline, *)
(* +3 cannot_be_merged, +2 updated before now - 48h, -1 draft or work in   *)
(* progress), equal scores most recently updated first.                    *)

C1_Score(mr) ==
  (IF mr.pipeline = "failed" THEN 3 ELSE 0)
  + (IF mr.merge_status = "cannot_be_merged" THEN 3 ELSE 0)
  + (IF mr.updated_at < Now - 48 * 3600000 THEN 2 ELSE 0)
  + (IF mr.draft \/ mr.work_in_progress THEN -1 ELSE 0)

C1_Precedes(a, b) ==
  \/ C1_Score(a) > C1_Score(b)
  \/ C1_Score(a) = C1_Score(b) /\ a.updated_at >= b.updated_at

C1_RankedTopTen(mrs, hs) ==
  LET shown == {hs[i].title : i \in 1..Len(hs)}
  IN  /\ Len(hs) = Min(10, Len(mrs))
      /\ Cardinality(shown) = Len(hs)
      /\ shown \subseteq 1..Len(mrs)
      /\ \A i \in 1..Len(hs) : hs[i].updatedAt = mrs[hs[i].title].updated_at
      /\ \A i, j \in 1..Len(hs) : i < j => C1_Precedes(mrs[hs[i].title], mrs[hs[j].title])
      /\ \A i \in 1..Len(hs), m \in (1..Len(mrs)) \ shown :
           C1_Precedes(mrs[hs[i].title], mrs[m])

C1_HighlightsRanked ==
  \A c \in 1..Len(assignedCycles) :
    assignedCycles[c].outcome = "transformed" /\ assignedCycles[c].payload.isArray
      => C1_RankedTopTen(assignedCycles[c].payload.mrs, assignedCycles[c].update.highlights)

\* a page of more than 10 merge requests was ranked, with a score tie and a
\* draft among them
C1_Witness ==
  \E c \in 1..Len(assignedCycles) :
    LET mrs == assignedCycles[c].payload.mrs
    IN  /\ assignedCycles[c].outcome = "transformed"
        /\ Len(mrs) > 10
        /\ Len(assignedCycles[c].update.highlights) = 10
        /\ mrs[1].draft /\ ~mrs[2].draft
        /\ C1_Score(mrs[2]) = 0 /\ mrs[2].updated_at # mrs[3].updated_at

----------------------------------------------------------------------------
(* Reviewer queue payloads *)

ReviewerMergeRequest(id, shape) ==
  [ id |-> id,
    pipeline |-> shape.pipeline,
    merge_status |-> "can_be_merged",
    draft |-> FALSE,
    work_in_progress |-> FALSE,
    updated_at |-> Now - 3600000,
    approved_by |-> shape.approved_by,
    user_notes_count |-> shape.user_notes_count,
    blocking_discussions_resolved |-> shape.blocking_discussions_resolved,
    project_id |-> shape.project_id,
    iid |-> IF shape.has_iid THEN id ELSE 0 ]

ReviewerShape(pipeline, approved_by, notes, resolved, project_id, has_iid) ==
  [ pipeline |-> pipeline, approved_by |-> approved_by, user_notes_count |-> notes,
    blocking_discussions_resolved |-> resolved, project_id |-> project_id,
    has_iid |-> has_iid ]

\* every combination of the fields the base ReviewState is seeded from, and
\* two merge requests without project id / iid
ReviewerShapes ==
  { ReviewerShape("success", a, n, r, 7, TRUE) :
      a \in {{}, {"me"}, {"other"}}, n \in {<<>>, <<0>>, <<3>>},
      r \in {"true", "false", "undefined"} }
  \cup { ReviewerShape("success", {}, <<>>, "undefined", 0, TRUE),
         ReviewerShape("success", {}, <<>>, "undefined", 7, FALSE) }

\* the shapes that are combined into longer pages
CoreReviewerShapes ==
  { ReviewerShape("success", {}, <<>>, "undefined", 7, TRUE),
    ReviewerShape("failed", {}, <<>>, "undefined", 7, TRUE),
    ReviewerShape("success", {"me"}, <<0>>, "undefined", 7, TRUE),
    ReviewerShape("success", {}, <<3>>, "true", 7, TRUE),
    ReviewerShape("success", {"me"}, <<3>>, "false", 7, TRUE),
    ReviewerShape("success", {}, <<>>, "undefined", 0, TRUE) }

ReviewerLists(n) ==
  { [i \in 1..Len(v) |-> ReviewerMergeRequest(i, v[i])] :
      v \in SeqsUpTo(CoreReviewerShapes, n) }
  \cup { <<ReviewerMergeRequest(1, shape)>> : shape \in ReviewerShapes }

ReviewerPayloads ==
  {ArrayPayload(l) : l \in ReviewerLists(MaxReviewerMrs)} \cup {NonArrayPayload}

----------------------------------------------------------------------------
(* The reviewer queue pipeline: one fetch cycle, every payload of          *)
(* ReviewerPayloads, every outcome of every supplemental request           *)

InitReviewerQueue ==
  /\ env \in EnvInputs
  /\ InitAssigned
  /\ InitReviewer
  /\ InitWeather
  /\ weatherProps.staticLocation.isNull /\ weatherProps.hasGeolocation
  /\ InitPaletteState /\ links = <<>>
  /\ reviewRows = <<>>
  /\ rain = NoRain
  /\ merged = NoMerged
  /\ storage = MountedStorage /\ settings = DefaultSettings
  /\ lastEvent = Event("init", "none", 0)

NextReviewerQueue ==
  \/ ReviewerMount
  \/ ReviewerFetched(ReviewerPayloads)
  \/ ReviewerFetchFailed
  \/ NotesSettled
  \/ DiscussionsSettled
  \/ ReviewerJoin

SpecReviewer == InitReviewerQueue /\ [][NextReviewerQueue]_vars

----------------------------------------------------------------------------
(* getReviewCategory applied to rows of arbitrary review state: the         *)
(* fallback `highlight.reviewCategory ?? getReviewCategory(...)` of lines   *)
(* 667 and 1095                                                             *)

Tri == {"true", "false", "undefined"}

ReviewStateInputs ==
  [approved : Tri, commented : Tri, commentsResolved : Tri, reviewed : {"undefined"}]
  \cup {AbsentReviewState}

ClassifyRow ==
  \E i \in 1..Len(reviewRows) :
    /\ reviewRows[i].category = "unclassified"
    /\ reviewRows' = [reviewRows EXCEPT
                        ![i].category = getReviewCategory(reviewRows[i].reviewState)]
    /\ lastEvent' = Event("classify", "row", i)
    /\ UNCHANGED <<paletteVars, rain, merged, storage, settings, env, assignedVars, reviewerVars, weatherVars>>

InitCategory ==
  /\ env = [VITE_GITLAB_TOKEN |-> "glpat-1", VITE_GITLAB_USERNAME |-> "me"]
  /\ InitAssigned
  /\ InitReviewer
  /\ InitWeather
  /\ weatherProps.staticLocation.isNull /\ weatherProps.hasGeolocation
  /\ InitPaletteState /\ links = <<>>
  /\ reviewRows \in { [i \in 1..Len(v) |-> [reviewState |-> v[i], category |-> "unclassified"]] :
                       v \in SeqsUpTo(ReviewStateInputs, MaxRows) }
  /\ rain = NoRain
  /\ merged = NoMerged
  /\ storage = MountedStorage /\ settings = DefaultSettings
  /\ lastEvent = Event("init", "none", 0)

NextCategory == ClassifyRow

SpecCategory == InitCategory /\ [][NextCategory]_vars

----------------------------------------------------------------------------
(* C2: getReviewCategory is total over approved, commented and             *)
(* commentsResolved in {true, false, unknown} and over an absent state:    *)
(* 'reviewed' iff approved is true and commentsResolved is not false;      *)
(* 'in-review' iff (commented is true and approved is not true) or         *)
(* (approved is true and commentsResolved is false); 'needs-review'        *)
(* otherwise; exactly one category for each input.                         *)

C2_IsReviewed(rs) ==
  ~isAbsent(rs) /\ rs.approved = "true" /\ rs.commentsResolved # "false"

C2_IsInReview(rs) ==
  /\ ~isAbsent(rs)
  /\ \/ rs.commented = "true" /\ rs.approved # "true"
     \/ rs.approved = "true" /\ rs.commentsResolved = "false"

C2_CategoryTotal ==
  \A i \in 1..Len(reviewRows) :
    LET rs == reviewRows[i].reviewState
        category == reviewRows[i].category
    IN  category # "unclassified" =>
          /\ category \in {"needs-review", "in-review", "reviewed"}
          /\ category = "reviewed" <=> C2_IsReviewed(rs)
          /\ category = "in-review" <=> C2_IsInReview(rs)
          /\ category = "needs-review" <=> ~C2_IsReviewed(rs) /\ ~C2_IsInReview(rs)

\* an absent state and an approved state with unresolved comments were classified
C2_Witness ==
  /\ Len(reviewRows) = 2
  /\ isAbsent(reviewRows[1].reviewState)
  /\ reviewRows[1].category = "needs-review"
  /\ ~isAbsent(reviewRows[2].reviewState)
  /\ reviewRows[2].reviewState.approved = "true"
  /\ reviewRows[2].reviewState.commentsResolved = "false"
  /\ reviewRows[2].category = "in-review"

----------------------------------------------------------------------------
(* C3: in the list buildReviewerInsights returns, every 'needs-review'     *)
(* highlight precedes every 'in-review' highlight and every 'in-review'    *)
(* highlight precedes every 'reviewed' one (final categories).             *)

C3_Rank(category) ==
  IF category = "needs-review" THEN 0 ELSE IF category = "in-review" THEN 1 ELSE 2

C3_FinalCategoriesOrdered ==
  \A c \in 1..Len(reviewerCycles) :
    LET result == reviewerCycles[c].result
    IN  reviewerCycles[c].outcome = "committed" =>
          \A i, j \in 1..Len(result) :
            i < j => C3_Rank(result[i].reviewCategory) <= C3_Rank(result[j].reviewCategory)

----------------------------------------------------------------------------
(* C5: annotateReviewerHighlights resolves, never rejects, once every      *)
(* highlight has settled, with one output per input in the same order; a   *)
(* failed notes or discussions request changes nothing for any other       *)
(* highlight.                                                              *)

C5_SameInputs(cycle, i, j) ==
  /\ cycle.base[i].reviewState = cycle.base[j].reviewState
  /\ cycle.base[i].pipelineStatus = cycle.base[j].pipelineStatus
  /\ cycle.base[i].hasConflicts = cycle.base[j].hasConflicts
  /\ cycle.base[i].projectId = cycle.base[j].projectId
  /\ (cycle.base[i].iid = 0) = (cycle.base[j].iid = 0)
  /\ cycle.requests[i].notes = cycle.requests[j].notes
  /\ cycle.requests[i].discussions = cycle.requests[j].discussions

C5_SameOutputs(cycle, i, j) ==
  /\ cycle.result[i].reviewState = cycle.result[j].reviewState
  /\ cycle.result[i].reviewCategory = cycle.result[j].reviewCategory
  /\ cycle.result[i].tags = cycle.result[j].tags

C5_BatchAlwaysResolves ==
  \A c \in 1..Len(reviewerCycles) :
    LET cycle == reviewerCycles[c]
    IN  /\ \A i \in 1..Len(cycle.requests) : cycle.requests[i].step # "rejected"
        /\ cycle.outcome # "rejected"
        /\ cycle.outcome = "committed" =>
             /\ \A i \in 1..Len(cycle.requests) : cycle.requests[i].step = "fulfilled"
             /\ Len(cycle.result) = Len(cycle.mrs)
             /\ Len(cycle.result) = Len(cycle.base)
             /\ \A i \in 1..Len(cycle.result) : cycle.result[i].title = cycle.base[i].title
             /\ \A i, j \in 1..Len(cycle.result) :
                  C5_SameInputs(cycle, i, j) => C5_SameOutputs(cycle, i, j)

\* a batch of two like highlights resolved, the notes request of the first
\* one having failed and that of the second one having found a note
C5_Witness ==
  \E c \in 1..Len(reviewerCycles) :
    LET cycle == reviewerCycles[c]
    IN  /\ cycle.outcome = "committed"
        /\ Len(cycle.result) = 2
        /\ cycle.base[1].reviewState = cycle.base[2].reviewState
        /\ cycle.requests[1].notes = "failed"
        /\ cycle.requests[2].notes = "some"
        /\ cycle.requests[2].discussions = "failed"
        /\ cycle.result[2].reviewCategory = "in-review"
        /\ cycle.result[1].reviewCategory = "needs-review"

----------------------------------------------------------------------------
(* C6: after a failed notes request `commented` equals the base            *)
(* `commented` (true, false or unknown); after a failed discussions        *)
(* request `commentsResolved` equals the base `commentsResolved`.          *)

C6_Settled(cycle, i) == cycle.requests[i].step = "fulfilled"

C6_FailureKeepsBase ==
  \A c \in 1..Len(reviewerCycles) :
    LET cycle == reviewerCycles[c]
    IN  \A i \in 1..Len(cycle.requests) :
          C6_Settled(cycle, i) =>
            /\ cycle.requests[i].notes = "failed" =>
                 cycle.requests[i].result.reviewState.commented
                   = cycle.base[i].reviewState.commented
            /\ cycle.requests[i].discussions = "failed" =>
                 cycle.requests[i].result.reviewState.commentsResolved
                   = cycle.base[i].reviewState.commentsResolved

\* C6 as amended: after a failed notes request `commented` equals the base
\* `commented` when that is true or false, and is false when the base is
\* unknown; after a failed discussions request `commentsResolved` equals
\* the base `commentsResolved`.
C6_FailureKeepsBaseOrFalse ==
  \A c \in 1..Len(reviewerCycles) :
    LET cycle == reviewerCycles[c]
    IN  \A i \in 1..Len(cycle.requests) :
          C6_Settled(cycle, i) =>
            /\ cycle.requests[i].notes = "failed" =>
                 cycle.requests[i].result.reviewState.commented
                   = (IF cycle.base[i].reviewState.commented = "undefined" THEN "false"
                      ELSE cycle.base[i].reviewState.commented)
            /\ cycle.requests[i].discussions = "failed" =>
                 cycle.requests[i].result.reviewState.commentsResolved
                   = cycle.base[i].reviewState.commentsResolved

\* both supplemental requests of a highlight failed, its base `commented`
\* being true
C6_Witness ==
  \E c \in 1..Len(reviewerCycles) :
    LET cycle == reviewerCycles[c]
    IN  \E i \in 1..Len(cycle.requests) :
          /\ C6_Settled(cycle, i)
          /\ cycle.requests[i].notes = "failed"
          /\ cycle.requests[i].discussions = "failed"
          /\ cycle.base[i].reviewState.commented = "true"
          /\ cycle.requests[i].result.reviewState.commented = "true"

----------------------------------------------------------------------------
(* The three fetch effects with their cleanups: cycles are started,        *)
(* cancelled by a re-run or an unmount, and settle in any order. The       *)
(* effects share no state, so a behaviour follows one of them.             *)

FetchPayloads ==
  { NonArrayPayload,
    ArrayPayload(<<MergeRequest(1, AssignedShape("failed", "can_be_merged", FALSE, FALSE,
                                                 Now - 3600000))>>) }

ReviewerFetchPayloads ==
  { NonArrayPayload,
    ArrayPayload(<<ReviewerMergeRequest(1, ReviewerShape("success", {}, <<>>, "undefined",
                                                         7, TRUE))>>) }

assignedIdle == ~assigned.mounted /\ assignedCycles = <<>>
reviewerIdle == ~reviewer.mounted /\ reviewerCycles = <<>>
weatherIdle == ~weather.mounted /\ weatherCycles = <<>>

InitFetch ==
  /\ env \in {e \in EnvInputs : e.VITE_GITLAB_USERNAME = "me"
                                /\ e.VITE_GITLAB_TOKEN \in {"undefined", "glpat-1"}}
  /\ InitAssigned
  /\ InitReviewer
  /\ InitWeather
  /\ InitPaletteState /\ links = <<>>
  /\ reviewRows = <<>>
  /\ rain = NoRain
  /\ merged = NoMerged
  /\ storage = MountedStorage /\ settings = DefaultSettings
  /\ lastEvent = Event("init", "none", 0)

NextAssignedEffect ==
  /\ reviewerIdle /\ weatherIdle
  /\ \/ AssignedMount
     \/ AssignedRestart
     \/ AssignedUnmount
     \/ AssignedFetched(FetchPayloads)
     \/ AssignedFailed
     \/ AssignedCommit

NextReviewerEffect ==
  /\ assignedIdle /\ weatherIdle
  /\ \/ ReviewerMount
     \/ ReviewerRestart
     \/ ReviewerUnmount
     \/ ReviewerFetched(ReviewerFetchPayloads)
     \/ ReviewerFetchFailed
     \/ NotesSettled
     \/ DiscussionsSettled
     \/ ReviewerJoin

NextWeatherEffect ==
  /\ assignedIdle /\ reviewerIdle
  /\ \/ WeatherMount
     \/ GeolocationSucceeded
     \/ GeolocationFailed
     \/ TimeZoneChanged
     \/ WeatherUnmount
     \/ WeatherSettled

mergedIdle == merged = NoMerged

NextMergedPath ==
  /\ assignedIdle /\ reviewerIdle /\ weatherIdle
  /\ \/ TabSelected
     \/ MergedSettled

NextFetch ==
  \/ mergedIdle /\ NextAssignedEffect
  \/ mergedIdle /\ NextReviewerEffect
  \/ mergedIdle /\ NextWeatherEffect
  \/ NextMergedPath

SpecFetch == InitFetch /\ [][NextFetch]_vars

----------------------------------------------------------------------------
(* C4: once the cleanup of a fetch cycle has run, no response or failure   *)
(* of that cycle writes data, loading, error or status state, and none     *)
(* invokes onHighlightsChange (assigned, reviewer and weather effects).    *)

C4_SettleKinds ==
  {"response", "failure", "commit", "payload", "notes", "discussions", "join"}

C4_CleanedUp(event) ==
  /\ event.kind \in C4_SettleKinds
  /\ \/ event.effect = "assigned" /\ assignedCycles[event.cycle].cancelled
     \/ event.effect = "reviewer" /\ reviewerCycles[event.cycle].cancelled
     \/ event.effect = "weather" /\ weatherCycles[event.cycle].cancelled

C4_NoWriteAfterCleanup ==
  [][ C4_CleanedUp(lastEvent')
        => /\ assigned' = assigned
           /\ gitlabHighlights' = gitlabHighlights
           /\ reviewer' = reviewer
           /\ weather' = weather
           /\ weatherSummary' = weatherSummary ]_vars

\* the response of a cancelled assigned cycle arrived after the cycle that
\* replaced it had been started, and was dropped
C4_Witness ==
  /\ lastEvent = Event("response", "assigned", 1)
  /\ Len(assignedCycles) = 2
  /\ assignedCycles[1].cancelled
  /\ assignedCycles[1].payload.isArray
  /\ assignedCycles[1].outcome = "dropped"
  /\ assigned.mounted /\ assigned.loading
  /\ gitlabHighlights = <<>>


----------------------------------------------------------------------------
(* App and CommandPalette: the palette state and its handlers *)

\* the values typed or pasted into the palette input
QueryInputs ==
  { <<>>,
    <<" ">>,
    <<"r">>,
    <<" ", "C", "o", "n", "f", "l", "i", "c", "t", "s", " ", "M", "R", "S", " ">>,
    <<"B", "o", "o", "k", "m", "a", "r", "k">>,
    <<"z", "z", " ", "t", "o", "p">> }

\* the highlight lists StatusBoard hands to onHighlightsChange: none, and
\* the ten of a page of eleven merge requests, one stale with a failed pipeline
HighlightInputs ==
  { buildGitLabInsights(mrs).highlights :
      mrs \in { <<>>,
                [i \in 1..(HIGHLIGHT_LIMIT + 1) |->
                   MergeRequest(i, IF i = 2
                                   THEN AssignedShape("failed", "can_be_merged", FALSE, FALSE,
                                                      staleThreshold - 1)
                                   ELSE FillerShape)] } }

\* the list CommandPalette renders in the current state
currentList ==
  list(commandItems(links, gitlabHighlights), palette.query,
       webSearchFallbackLabel(palette.query), webSearchFallback(palette.query))

\* what invoking an action callback opens: lines 273-277, 282, 292-294
actionOpens(action, query) ==
  IF action = "web-search"
  THEN <<<<"h", "t", "t", "p", "s", ":", "/", "/", "d", "u", "c", "k", "d", "u", "c", "k", "g", "o", ".", "c", "o", "m", "/", "?", "q", "=">> \o encodeURIComponent(trim(query))>>
  ELSE <<>>

\* lines 77-84, up to onClose
handleSelect(item, query) ==
  IF item.action # "undefined"
  THEN [kind |-> "action", id |-> item.id, opened |-> actionOpens(item.action, query)]
  ELSE IF item.href # <<>>
  THEN [kind |-> "href", id |-> item.id, opened |-> item.href]
  ELSE [kind |-> "none", id |-> item.id, opened |-> <<>>]

\* setDetailedWeather of the two weather toggles
detailedWeatherAfter(item) ==
  IF item.action = "weather-on" THEN TRUE
  ELSE IF item.action = "weather-off" THEN FALSE
  ELSE detailedWeather

\* handleSelect(item) as a step: the activation, then onClose()
Select(item) ==
  /\ activation' = handleSelect(item, palette.query)
  /\ detailedWeather' = detailedWeatherAfter(item)
  /\ palette' = [palette EXCEPT !.open = FALSE]

\* App lines 127-139: isMetaK, or isSlash outside a typing target
hotkeyOpens(key, isTypingTarget) == key = "meta-k" \/ ~isTypingTarget

\* setPaletteOpen(true), setPaletteQuery(''), and when `open` changed the
\* open effect of CommandPalette lines 38-43: setActiveIndex(0)
openedPalette_keepsCursor(current) ==
  [open |-> TRUE, query |-> <<>>, activeIndex |-> current.activeIndex]

openedPalette(current) ==
  [ open |-> TRUE, query |-> <<>>,
    activeIndex |-> IF current.open THEN current.activeIndex ELSE 0 ]

\* line 88: the keydown handler of CommandPalette returns when not open
handlerActive_always(current) == TRUE

handlerActive(current) == current.open

\* App lines 116-143, followed by the open effect of CommandPalette;
\* `activation` observes one opening of the palette
Hotkey ==
  \E key \in {"meta-k", "slash"}, isTypingTarget \in BOOLEAN :
    /\ palette' = IF hotkeyOpens(key, isTypingTarget) THEN openedPalette(palette)
                  ELSE palette
    /\ activation' = IF palette'.open /\ ~palette.open THEN NoActivation ELSE activation
    /\ lastEvent' = Event(key, "palette", IF isTypingTarget THEN 1 ELSE 0)
    /\ UNCHANGED <<rain, merged, storage, settings, env, assignedVars, reviewerVars, reviewRows, weatherVars, links,
                   detailedWeather>>

\* onChange of the input: onQueryChange(event.target.value)
QueryChanged ==
  \E value \in QueryInputs \ {palette.query} :
    /\ palette.open
    /\ palette' = [palette EXCEPT !.query = value]
    /\ lastEvent' = Event("query", "palette", 0)
    /\ UNCHANGED <<rain, merged, storage, settings, env, assignedVars, reviewerVars, reviewRows, weatherVars, links,
                   detailedWeather, activation>>

\* App: setGitlabHighlights, the onHighlightsChange prop of StatusBoard
HighlightsChanged ==
  \E highlights \in HighlightInputs \ {gitlabHighlights} :
    /\ gitlabHighlights' = highlights
    /\ lastEvent' = Event("highlights", "palette", 0)
    /\ UNCHANGED <<rain, merged, storage, settings, env, assigned, assignedCycles, reviewerVars, reviewRows, weatherVars,
                   paletteVars>>

\* keydown Escape: lines 88-92
Escape ==
  /\ palette' = IF handlerActive(palette) THEN [palette EXCEPT !.open = FALSE]
                ELSE palette
  /\ lastEvent' = Event("Escape", "palette", 0)
  /\ UNCHANGED <<rain, merged, storage, settings, env, assignedVars, reviewerVars, reviewRows, weatherVars, links,
                 detailedWeather, activation>>

\* keydown ArrowDown: lines 88, 93-96
ArrowDown ==
  /\ palette' =
       IF ~handlerActive(palette) THEN palette
       ELSE LET length == Len(currentList)
            IN  IF length > 0
                THEN [palette EXCEPT !.activeIndex = Min(@ + 1, length - 1)]
                ELSE palette
  /\ lastEvent' = Event("ArrowDown", "palette", 0)
  /\ UNCHANGED <<rain, merged, storage, settings, env, assignedVars, reviewerVars, reviewRows, weatherVars, links,
                 detailedWeather, activation>>

\* keydown ArrowUp: lines 88, 97-100
ArrowUp ==
  /\ palette' =
       IF ~handlerActive(palette) THEN palette
       ELSE IF Len(currentList) > 0
       THEN [palette EXCEPT !.activeIndex = Max(@ - 1, 0)]
       ELSE palette
  /\ lastEvent' = Event("ArrowUp", "palette", 0)
  /\ UNCHANGED <<rain, merged, storage, settings, env, assignedVars, reviewerVars, reviewRows, weatherVars, links,
                 detailedWeather, activation>>

\* keydown Enter: lines 88, 101-107
Enter ==
  /\ IF ~handlerActive(palette) THEN UNCHANGED <<palette, detailedWeather, activation>>
     ELSE LET items == currentList
          IN  IF palette.activeIndex + 1 \in 1..Len(items)
              THEN Select(items[palette.activeIndex + 1])
              ELSE UNCHANGED <<palette, detailedWeather, activation>>
  /\ lastEvent' = Event("Enter", "palette", 0)
  /\ storage' = stored(storage, DETAILS_KEY, JsonBoolean(detailedWeather'))
  /\ UNCHANGED <<rain, merged, settings, env, assignedVars, reviewerVars, reviewRows, weatherVars, links>>

\* onClick of a rendered item, line 143: the pointer is on the item, so its
\* onMouseEnter has run
Click ==
  /\ palette.open
  /\ LET items == currentList
     IN  /\ palette.activeIndex + 1 \in 1..Len(items)
         /\ Select(items[palette.activeIndex + 1])
  /\ lastEvent' = Event("click", "palette", 0)
  /\ storage' = stored(storage, DETAILS_KEY, JsonBoolean(detailedWeather'))
  /\ UNCHANGED <<rain, merged, settings, env, assignedVars, reviewerVars, reviewRows, weatherVars, links>>

\* onMouseEnter of a rendered item: line 153
Hover ==
  /\ palette.open
  /\ \E index \in 1..Len(currentList) :
       palette' = [palette EXCEPT !.activeIndex = index - 1]
  /\ lastEvent' = Event("hover", "palette", 0)
  /\ UNCHANGED <<rain, merged, storage, settings, env, assignedVars, reviewerVars, reviewRows, weatherVars, links,
                 detailedWeather, activation>>

InitPalette ==
  /\ env = [VITE_GITLAB_TOKEN |-> "glpat-1", VITE_GITLAB_USERNAME |-> "me"]
  /\ InitAssigned
  /\ InitReviewer
  /\ InitWeather
  /\ weatherProps.staticLocation.isNull /\ weatherProps.hasGeolocation
  /\ InitPaletteState
  /\ reviewRows = <<>>
  /\ rain = NoRain
  /\ merged = NoMerged
  /\ storage = MountedStorage /\ settings = DefaultSettings
  /\ lastEvent = Event("init", "none", 0)

NextPalette ==
  \/ Hotkey
  \/ QueryChanged
  \/ HighlightsChanged
  \/ Escape
  \/ ArrowDown
  \/ ArrowUp
  \/ Enter
  \/ Click
  \/ Hover

SpecPalette == InitPalette /\ [][NextPalette]_vars

----------------------------------------------------------------------------
(* C7: for a non-empty trimmed query a command is in the filtered results  *)
(* iff the lower-cased query is a substring of its lower-cased label, or   *)
(* of its description, or of one of its keywords.                          *)

C7_Fields(item) ==
  <<item.label>>
  \o (IF item.description = <<>> THEN << <<>> >> ELSE <<item.description[1]>>)
  \o (IF item.keywords = <<>> THEN <<>> ELSE item.keywords[1])

C7_SomeFieldContains(item, query) ==
  \E f \in 1..Len(C7_Fields(item)) : includes(toLowerCase(C7_Fields(item)[f]), query)

C7_MatchesSomeField ==
  LET query == toLowerCase(trim(palette.query))
      commands == commandItems(links, gitlabHighlights)
      results == Range(filtered(commands, normalizedQuery(palette.query)))
  IN  query # <<>>
        => \A i \in 1..Len(commands) :
             (commands[i] \in results) <=> C7_SomeFieldContains(commands[i], query)

RECURSIVE C7_SpaceJoined(_)
C7_SpaceJoined(fields) ==
  IF Len(fields) = 1 THEN fields[1]
  ELSE fields[1] \o <<" ">> \o C7_SpaceJoined(Tail(fields))

C7_JoinedContains(item, query) ==
  includes(toLowerCase(C7_SpaceJoined(C7_Fields(item))), query)

\* C7 (amended): for a non-empty trimmed query the filtered results hold
\* only commands for which the lower-cased query is a substring of the
\* lower-cased text "label description keyword1 keyword2 ..." (the fields
\* joined by single spaces, an absent description joined as the empty
\* text), and each of the first 24 such commands; a command one of whose
\* fields contains the query is such a command, and so is one where the
\* query only spans two adjacent fields.
C7_MatchesJoinedFields ==
  LET query == toLowerCase(trim(palette.query))
      commands == commandItems(links, gitlabHighlights)
      results == Range(filtered(commands, normalizedQuery(palette.query)))
      joined == {i \in 1..Len(commands) : C7_JoinedContains(commands[i], query)}
  IN  query # <<>>
        => /\ \A i \in 1..Len(commands) : commands[i] \in results => i \in joined
           /\ \A i \in joined :
                Cardinality({j \in joined : j <= i}) <= 24 => commands[i] \in results
           /\ \A i \in 1..Len(commands) :
                C7_SomeFieldContains(commands[i], query) => i \in joined

\* the query " Conflicts MRS " is typed: it spans the label and the
\* description of the conflicts shortcut, which is the one result, and no
\* single field of that command contains it
C7_Witness ==
  /\ palette.open
  /\ palette.query = <<" ", "C", "o", "n", "f", "l", "i", "c", "t", "s", " ", "M", "R", "S", " ">>
  /\ Len(gitlabHighlights) > 0
  /\ LET query == toLowerCase(trim(palette.query))
         results == filtered(commandItems(links, gitlabHighlights), query)
     IN  /\ Len(results) = 1
         /\ results[1].id = <<"g", "i", "t", "l", "a", "b", "-", "c", "o", "n", "f", "l", "i", "c", "t", "s">>
         /\ ~C7_SomeFieldContains(results[1], query)

----------------------------------------------------------------------------
(* C8: the result list keeps the registration order (bookmarks, static     *)
(* GitLab shortcuts, highlight commands, weather toggles); an empty or     *)
(* whitespace-only query yields the first 12 registered commands, another  *)
(* query the first 24 matching commands in that order.                     *)

C8_HasPrefix(text, prefix) ==
  Len(text) >= Len(prefix) /\ SubSeq(text, 1, Len(prefix)) = prefix

C8_Group(item) ==
  IF C8_HasPrefix(item.id, <<"l", "i", "n", "k", "-">>) THEN 1
  ELSE IF C8_HasPrefix(item.id, <<"g", "i", "t", "l", "a", "b", "-">>) THEN 2
  ELSE IF C8_HasPrefix(item.id, <<"m", "r", "-">>) THEN 3
  ELSE IF C8_HasPrefix(item.id, <<"w", "e", "a", "t", "h", "e", "r", "-">>) THEN 4
  ELSE 0

C8_RegistrationOrder(registered) ==
  /\ Len(registered) = Len(links) + 3 + Len(gitlabHighlights) + 2
  /\ \A i \in 1..Len(registered) :
       C8_Group(registered[i]) =
         IF i <= Len(links) THEN 1
         ELSE IF i <= Len(links) + 3 THEN 2
         ELSE IF i <= Len(links) + 3 + Len(gitlabHighlights) THEN 3
         ELSE 4
  /\ \A i \in 1..Len(links) : registered[i].label = links[i].label
  /\ \A i \in 1..Len(gitlabHighlights) :
       registered[Len(links) + 3 + i].label = mrTitle(gitlabHighlights[i].title)

C8_Matching(registered, query) ==
  {i \in 1..Len(registered) : includes(haystack(registered[i]), toLowerCase(trim(query)))}

\* the first n members of a set of indexes, in increasing order
C8_FirstOf(indexes, n) ==
  [k \in 1..Min(n, Cardinality(indexes)) |->
     CHOOSE i \in indexes : Cardinality({j \in indexes : j < i}) = k - 1]

C8_ResultsInRegistrationOrder ==
  LET registered == commandItems(links, gitlabHighlights)
      shown == filtered(registered, normalizedQuery(palette.query))
      matching == C8_Matching(registered, palette.query)
      chosen == IF trim(palette.query) = <<>>
                THEN C8_FirstOf(1..Len(registered), 12)
                ELSE C8_FirstOf(matching, 24)
  IN  /\ C8_RegistrationOrder(registered)
      /\ Len(shown) = Len(chosen)
      /\ \A k \in 1..Len(chosen) : shown[k] = registered[chosen[k]]

\* a query that more than 24 commands of all four groups match
C8_Witness ==
  /\ palette.open
  /\ palette.query = <<"r">>
  /\ Len(links) > 12
  /\ Len(gitlabHighlights) > 0
  /\ LET registered == commandItems(links, gitlabHighlights)
     IN  /\ Cardinality(C8_Matching(registered, palette.query)) > 24
         /\ Len(filtered(registered, normalizedQuery(palette.query))) = 24

----------------------------------------------------------------------------
(* C9: the fallback entry is in the list iff the trimmed query is not      *)
(* empty, no command matches and both a fallback label and a fallback      *)
(* action are supplied; it is then the only entry, its id 'fallback' is    *)
(* the id of no registered command, and activating it invokes the          *)
(* fallback action.                                                        *)

C9_IsFallback(item) == item.id = <<"f", "a", "l", "l", "b", "a", "c", "k">>

C9_Supplied ==
  webSearchFallbackLabel(palette.query) # <<>> /\ webSearchFallback(palette.query) # "null"

C9_FallbackEntry ==
  LET registered == commandItems(links, gitlabHighlights)
      items == currentList
      shown == \E i \in 1..Len(items) : C9_IsFallback(items[i])
      noMatch == \A i \in 1..Len(registered) :
                   ~includes(haystack(registered[i]), toLowerCase(trim(palette.query)))
  IN  /\ shown <=> (trim(palette.query) # <<>> /\ noMatch /\ C9_Supplied)
      /\ shown => Len(items) = 1 /\ items[1].action = "web-search"
      /\ \A i \in 1..Len(registered) : ~C9_IsFallback(registered[i])
      /\ C9_IsFallback(activation)
           => /\ activation.kind = "action"
              /\ activation.opened # <<>>
              /\ C8_HasPrefix(activation.opened[1], <<"h", "t", "t", "p", "s", ":", "/", "/", "d", "u", "c", "k", "d", "u", "c", "k", "g", "o", ".", "c", "o", "m", "/", "?", "q", "=">>)
              /\ ~palette.open

\* the fallback entry of the query "zz top" was activated: the search page
\* was opened for the trimmed, encoded query
C9_Witness ==
  /\ C9_IsFallback(activation)
  /\ activation.opened = <<<<"h", "t", "t", "p", "s", ":", "/", "/", "d", "u", "c", "k", "d", "u", "c", "k", "g", "o", ".", "c", "o", "m", "/", "?", "q", "=">> \o encodeURIComponent(<<"z", "z", " ", "t", "o", "p">>)>>
  /\ lastEvent.kind = "Enter"
  /\ Len(links) > 0

----------------------------------------------------------------------------
(* C10: while the palette is open and its list is not empty,               *)
(* 0 <= activeIndex <= length(list) - 1, after any sequence of opening,    *)
(* query edits, command list changes, arrow keys and hovers.               *)

C10_CursorInRange ==
  palette.open
    => LET length == Len(currentList)
       IN  length > 0 => 0 <= palette.activeIndex /\ palette.activeIndex <= length - 1

----------------------------------------------------------------------------
(* C11: Enter, pressed while the palette is open and its list is not       *)
(* empty, activates the item under the cursor (its action, else its href)  *)
(* and closes the palette, in every state reachable by opening, editing    *)
(* the query and moving the cursor.                                        *)

C11_EnterPressed == lastEvent'.kind = "Enter" /\ lastEvent'.effect = "palette"

C11_EnterActivates ==
  [][ (C11_EnterPressed /\ palette.open /\ Len(currentList) > 0)
        => /\ ~palette'.open
           /\ activation'.kind \in {"action", "href"}
           /\ \E i \in 1..Len(currentList) : activation'.id = currentList[i].id ]_vars

----------------------------------------------------------------------------
(* C12: from the closed state Meta+K / Ctrl+K (any focus), or '/' outside  *)
(* a text input, opens the palette with an empty query and the cursor at   *)
(* index 0; '/' inside a text input leaves open state and query unchanged. *)

C12_HotkeyOpensAtZero ==
  [][ (lastEvent'.kind \in {"meta-k", "slash"} /\ ~palette.open)
        => IF lastEvent'.kind = "meta-k" \/ lastEvent'.cycle = 0
           THEN /\ palette'.open
                /\ palette'.query = <<>>
                /\ palette'.activeIndex = 0
           ELSE palette' = palette ]_vars

\* '/' outside a text input reopened the palette with the cursor at 0 after
\* a session that ended with the cursor on the fourth row (the weather
\* toggle, with no bookmarks and no highlights)
C12_Witness ==
  /\ lastEvent = Event("slash", "palette", 0)
  /\ palette = [open |-> TRUE, query |-> <<>>, activeIndex |-> 0]
  /\ links = <<>> /\ gitlabHighlights = <<>>
  /\ detailedWeather

----------------------------------------------------------------------------
(* C13: Escape closes the palette from every open state without invoking   *)
(* an action or opening a href; while the palette is closed, Escape, the   *)
(* arrow keys and Enter change nothing.                                    *)

C13_EscapeCloses ==
  [][ /\ (lastEvent'.kind = "Escape" /\ palette.open)
          => /\ ~palette'.open
             /\ activation' = activation
             /\ detailedWeather' = detailedWeather
      /\ (lastEvent'.kind \in {"Escape", "ArrowDown", "ArrowUp", "Enter"} /\ ~palette.open)
          => /\ palette' = palette
             /\ activation' = activation
             /\ detailedWeather' = detailedWeather ]_vars

\* Escape closed the palette while the web search fallback was its one entry
C13_Witness ==
  /\ lastEvent.kind = "Escape"
  /\ ~palette.open
  /\ trim(palette.query) # <<>>
  /\ Len(filtered(commandItems(links, gitlabHighlights), normalizedQuery(palette.query))) = 0
  /\ Len(currentList) = 1
  /\ activation = NoActivation

----------------------------------------------------------------------------
(* The rain helpers applied to every block of HourlyInputs *)

InitRain ==
  /\ env = [VITE_GITLAB_TOKEN |-> "glpat-1", VITE_GITLAB_USERNAME |-> "me"]
  /\ InitAssigned
  /\ InitReviewer
  /\ InitWeather
  /\ weatherProps.staticLocation.isNull /\ weatherProps.hasGeolocation
  /\ InitPaletteState /\ links = <<>>
  /\ reviewRows = <<>>
  /\ rain = NoRain
  /\ merged = NoMerged
  /\ storage = MountedStorage /\ settings = DefaultSettings
  /\ lastEvent = Event("init", "none", 0)

NextRain == ApplyRainHelpers

SpecRain == InitRain /\ [][NextRain]_vars

----------------------------------------------------------------------------
(* C14: extractNextRain returns the time label of the first hourly entry,  *)
(* in series order, whose precipitation probability is >= 40 or whose      *)
(* precipitation amount is > 0, and null when no entry qualifies.          *)

C14_Length(hourly) == IF hourly.isNull THEN 0 ELSE Len(hourly.time)

C14_Chance(hourly, i) ==
  IF hourly.precipitation_probability = <<>> THEN 0
  ELSE hourly.precipitation_probability[1][i]

C14_Amount(hourly, i) ==
  IF hourly.precipitation = <<>> THEN 0 ELSE hourly.precipitation[1][i]

C14_Qualifying(hourly) ==
  {i \in 1..C14_Length(hourly) : C14_Chance(hourly, i) >= 40 \/ C14_Amount(hourly, i) > 0}

C14_Label(ms, timeZone) ==
  LET local == ms + (IF timeZone = "Europe/Amsterdam" THEN 3600000 ELSE 0)
  IN  [hour |-> (local \div 3600000) % 24, minute |-> (local \div 60000) % 60]

C14_First(indexes) == CHOOSE i \in indexes : \A j \in indexes : i <= j

C14_FirstQualifyingEntry ==
  rain.applied
    => LET q == C14_Qualifying(rain.hourly)
       IN  IF q = {} THEN rain.nextRain = <<>>
           ELSE /\ rain.hourly.time[C14_First(q)] # <<>>
                /\ rain.nextRain =
                     <<C14_Label(rain.hourly.time[C14_First(q)][1], rain.timeZone)>>

C14_Usable(hourly) ==
  {i \in 1..C14_Length(hourly) :
     /\ hourly.precipitation_probability # <<>>
     /\ hourly.time[i] # <<>>
     /\ (C14_Chance(hourly, i) >= 40 \/ C14_Amount(hourly, i) > 0)}

\* C14 (amended): extractNextRain returns the time label of the first
\* hourly entry, in series order, that has a parseable time and whose
\* precipitation probability is >= 40 or whose precipitation amount is > 0
\* (a missing amount counts as 0); it returns null when no such entry
\* exists, and when the block, its time list or its probability list is
\* missing.
C14_FirstUsableEntry ==
  rain.applied
    => LET q == C14_Usable(rain.hourly)
       IN  IF q = {} THEN rain.nextRain = <<>>
           ELSE rain.nextRain =
                  <<C14_Label(rain.hourly.time[C14_First(q)][1], rain.timeZone)>>

\* the series [(t0, 10%, 0mm), (t1, 45%, 0mm), (t2, 90%, 2mm)]: t1 is selected
C14_Witness ==
  /\ rain.applied
  /\ rain.timeZone = "UTC"
  /\ rain.hourly = Hourly(<<<<thisHour>>, <<thisHour + HOUR_MS>>, <<thisHour + 2 * HOUR_MS>>>>,
                          <<<<10, 45, 90>>>>, <<<<0, 0, 2>>>>)
  /\ rain.nextRain = <<C14_Label(thisHour + HOUR_MS, "UTC")>>
  /\ rain.nextRain # <<C14_Label(thisHour + 2 * HOUR_MS, "UTC")>>

----------------------------------------------------------------------------
(* C15: an hourly entry whose time is earlier than now is never reported   *)
(* as the next rain, even when it meets the 40% / > 0 mm threshold.        *)

C15_PastEntryNeverReported ==
  rain.applied
    => \A i \in C14_Qualifying(rain.hourly) :
         (rain.hourly.time[i] # <<>> /\ rain.hourly.time[i][1] < Now)
           => rain.nextRain # <<C14_Label(rain.hourly.time[i][1], rain.timeZone)>>

-----------------------------------------------------------------------------
(* C16: after a geolocation denial or timeout, and after a failed forecast *)
(* request of a cycle that was not cancelled, the status is 'error' and    *)
(* the error message is set; and while the widget is in that state no      *)
(* forecast data (of a previous snapshot or a partial one) is displayed or *)
(* published through onSummaryChange.                                      *)

C16_Failed(event, cycles) ==
  \/ event.kind = "geolocation-error"
  \/ /\ event.kind = "failure" /\ event.effect = "weather"
     /\ ~cycles[event.cycle].cancelled

C16_NoForecastShown(w, summary) ==
  /\ summary.isNull
  /\ rendered(w).temperature = <<>>
  /\ rendered(w).details = getWeatherDescription(<<>>)
  /\ rendered(w).subtitle = [text |-> "Waiting for forecast"]

C16_ErrorShowsNoForecast ==
  [][ /\ C16_Failed(lastEvent', weatherCycles)
         => weather'.status = "error" /\ weather'.error # "null"
      /\ (weather'.mounted /\ weather'.status = "error")
         => /\ rendered(weather').message = weather'.error
            /\ C16_NoForecastShown(weather', weatherSummary') ]_vars

-----------------------------------------------------------------------------
(* C17: a snapshot that is displayed stays visible, in the widget and in   *)
(* the published summary, until a new snapshot replaces it; so it stays    *)
(* visible while a later fetch cycle is in flight.                         *)

C17_SnapshotStaysVisible ==
  [][ ( /\ weather.mounted /\ showContent(weather)
        /\ weather'.mounted /\ weather'.weather = weather.weather )
      => /\ showContent(weather')
         /\ rendered(weather').temperature = weather.weather.temperature
         /\ ~weatherSummary'.isNull ]_vars

-----------------------------------------------------------------------------
(* C18: after a successful forecast fetch the location label is the        *)
(* configured static label when that is non-empty, otherwise the reverse   *)
(* geocoded place name (city, else locality, else subdivision, else        *)
(* country), otherwise 'Your area'; and in every reachable state of the    *)
(* widget the label is a non-empty string.  A label counts as non-empty    *)
(* as in line 721, when something is left of it after trimming.            *)

C18_NonEmpty(label) == trimLabel(label) # ""

C18_PlaceName(reverse) ==
  IF C18_NonEmpty(reverse.city) THEN reverse.city
  ELSE IF C18_NonEmpty(reverse.locality) THEN reverse.locality
  ELSE IF C18_NonEmpty(reverse.principalSubdivision) THEN reverse.principalSubdivision
  ELSE IF C18_NonEmpty(reverse.countryName) THEN reverse.countryName
  ELSE "Your area"

C18_Expected(staticLocation, reverse) ==
  IF ~staticLocation.isNull /\ C18_NonEmpty(staticLocation.label)
  THEN staticLocation.label
  ELSE C18_PlaceName(reverse)

C18_Committed(event, cycles) ==
  /\ event.kind = "response" /\ event.effect = "weather"
  /\ cycles[event.cycle].outcome = "committed"

C18_LabelAlwaysResolved ==
  [][ /\ C18_Committed(lastEvent', weatherCycles')
         => weather'.locationLabel =
              C18_Expected(weatherProps'.staticLocation,
                           weatherCycles'[lastEvent'.cycle].reverse[1])
      /\ weather'.mounted => C18_NonEmpty(weather'.locationLabel) ]_vars

-----------------------------------------------------------------------------
(* C19: with no static location, once the geolocation request was denied   *)
(* or timed out the coordinates stay unset and no forecast or reverse      *)
(* geocoding request is issued; with a static location the geolocation is  *)
(* never requested and every fetch cycle carries the configured            *)
(* coordinates.                                                            *)

C19_GeolocationFailed(w) ==
  w.mounted /\ w.geolocation = "done" /\ w.coords.isNull

C19_Configured(staticLocation) ==
  Coords(staticLocation.latitude, staticLocation.longitude)

C19_NoFallbackLocation ==
  [][ /\ ( /\ weatherProps.staticLocation.isNull
           /\ C19_GeolocationFailed(weather) /\ weather'.mounted )
         => /\ weather'.coords.isNull
            /\ Len(weatherCycles') = Len(weatherCycles)
      /\ (~weatherProps'.staticLocation.isNull /\ weather'.mounted)
         => /\ weather'.geolocation = "idle"
            /\ weather'.coords = C19_Configured(weatherProps'.staticLocation)
            /\ weatherCycles' # <<>>
            /\ \A c \in 1..Len(weatherCycles') :
                 weatherCycles'[c].coords = C19_Configured(weatherProps'.staticLocation) ]_vars

C19_Witness ==
  /\ weatherProps.staticLocation.isNull
  /\ lastEvent = Event("geolocation-error", "weather", 0)
  /\ C19_GeolocationFailed(weather)
  /\ weather.status = "error"
  /\ weatherCycles = <<>>

-----------------------------------------------------------------------------
(* The three GitLab paths under every configuration of EnvInputs *)

InitConfig ==
  /\ env \in EnvInputs
  /\ InitAssigned
  /\ InitReviewer
  /\ InitWeather /\ weatherProps.staticLocation.isNull /\ weatherProps.hasGeolocation
  /\ InitPaletteState /\ links = <<>>
  /\ reviewRows = <<>>
  /\ rain = NoRain
  /\ merged = NoMerged
  /\ storage = MountedStorage /\ settings = DefaultSettings
  /\ lastEvent = Event("init", "none", 0)

NextConfig ==
  \/ mergedIdle /\ NextAssignedEffect
  \/ mergedIdle /\ NextReviewerEffect
  \/ NextMergedPath

SpecConfig == InitConfig /\ [][NextConfig]_vars

-----------------------------------------------------------------------------
(* C20: with the GitLab token absent, or a placeholder that sanitizeToken  *)
(* rejects, no request is issued by the assigned, reviewer-queue, merged   *)
(* or annotation paths; with the username absent no reviewer-queue, notes  *)
(* or discussions request is issued; and the missing configuration never   *)
(* shows as a failed request.                                              *)

C20_TokenAbsent ==
  env.VITE_GITLAB_TOKEN \in {"undefined", "blank", "your-token-here", "example-token"}

C20_UsernameAbsent == env.VITE_GITLAB_USERNAME = ""

C20_AssignedRequested ==
  \E c \in 1..Len(assignedCycles) :
    assignedCycles[c].phase = "fetching" \/ assignedCycles[c].outcome # "none"

\* every reviewer cycle starts with the reviewer-queue request, and the
\* notes and discussions requests belong to a cycle
C20_ReviewerRequested == reviewerCycles # <<>>

C20_MergedRequested == merged.requests > 0 \/ merged.inFlight

C20_NoRequestWithoutConfiguration ==
  /\ C20_TokenAbsent
       => /\ ~C20_AssignedRequested /\ ~C20_ReviewerRequested /\ ~C20_MergedRequested
          /\ assigned.error = "null" /\ reviewer.error = "null"
          /\ merged.error = "null"
  /\ C20_UsernameAbsent
       => ~C20_ReviewerRequested /\ reviewer.error = "null"

C20_Witness ==
  /\ env.VITE_GITLAB_TOKEN = "your-token-here"
  /\ lastEvent = Event("commit", "assigned", 1)
  /\ assigned.mounted /\ ~assigned.loading /\ assigned.error = "null"
  /\ assignedCycles[1].phase = "done"
  /\ ~C20_AssignedRequested

-----------------------------------------------------------------------------
(* C21: there is no automatic retry.  A failed GitLab fetch (assigned,     *)
(* reviewer or merged) or weather fetch of a cycle that was not cancelled  *)
(* shows its error, and the failure alone issues no further request.       *)

C21_FailureSettled(event, aCycles, rCycles, wCycles) ==
  \/ /\ event.kind = "failure" /\ event.effect = "assigned"
     /\ aCycles[event.cycle].outcome = "failed"
  \/ /\ event.kind \in {"failure", "join"} /\ event.effect = "reviewer"
     /\ rCycles[event.cycle].outcome \in {"failed", "rejected"}
  \/ /\ event.kind = "failure" /\ event.effect = "weather"
     /\ wCycles[event.cycle].outcome = "failed"
  \/ event.kind = "failure" /\ event.effect = "merged"

C21_ErrorShown(event, a, r, w, m) ==
  /\ event.effect = "assigned" => a.error # "null"
  /\ event.effect = "reviewer" => r.error # "null"
  /\ event.effect = "weather" => w.error # "null" /\ w.status = "error"
  /\ event.effect = "merged" => m.error # "null"

-----------------------------------------------------------------------------
(* C22: for an assigned payload that is not an array the transform yields, *)
(* without raising, what it yields for an empty array: the metrics open,   *)
(* stale, pipeline and conflicts are 0 and the highlight list is empty.    *)

C22_Empty ==
  [ metrics |-> [open |-> 0, stale |-> 0, pipeline |-> 0, conflicts |-> 0],
    highlights |-> <<>> ]

C22_NonArrayReadsAsEmpty ==
  \A c \in 1..Len(assignedCycles) :
    (assignedCycles[c].phase # "fetching" /\ ~assignedCycles[c].payload.isArray
       /\ assignedCycles[c].outcome # "none")
      => /\ assignedCycles[c].outcome \in {"transformed", "dropped"}
         /\ assignedCycles[c].outcome = "transformed"
              => /\ assignedCycles[c].update = C22_Empty
                 /\ assignedCycles[c].update = transformAssigned(ArrayPayload(<<>>))
         /\ (assignedCycles[c].phase = "done" /\ ~assignedCycles[c].cancelled)
              => assigned.status = C22_Empty /\ assigned.error = "null"

C22_Witness ==
  /\ lastEvent = Event("commit", "assigned", 1)
  /\ assignedCycles[1].payload = ArrayLikePayload
  /\ assignedCycles[1].phase = "done"
  /\ assigned.status = C22_Empty

-----------------------------------------------------------------------------
(* C23: the metrics of buildGitLabInsights count over the whole list: open *)
(* is the number of merge requests, stale the number updated before now    *)
(* minus 48 hours, pipeline the number whose head pipeline failed and      *)
(* conflicts the number that cannot be merged; the single merge request    *)
(* updated 72 hours ago, conflicting, without pipeline and not draft gives *)
(* open 1, stale 1, conflicts 1, pipeline 0 and has priority score 5.      *)

C23_Count(mrs, stale, failed, conflicting) ==
  Cardinality({ i \in 1..Len(mrs) :
                  \/ stale /\ mrs[i].updated_at < Now - 48 * 3600000
                  \/ failed /\ mrs[i].pipeline = "failed"
                  \/ conflicting /\ mrs[i].merge_status = "cannot_be_merged" })

C23_Metrics(mrs) ==
  [ open      |-> Len(mrs),
    stale     |-> C23_Count(mrs, TRUE, FALSE, FALSE),
    pipeline  |-> C23_Count(mrs, FALSE, TRUE, FALSE),
    conflicts |-> C23_Count(mrs, FALSE, FALSE, TRUE) ]

C23_MetricsCountWholeList ==
  \A c \in 1..Len(assignedCycles) :
    (assignedCycles[c].outcome = "transformed" /\ assignedCycles[c].payload.isArray)
      => LET mrs == assignedCycles[c].payload.mrs
             metrics == assignedCycles[c].update.metrics
         IN  /\ metrics = C23_Metrics(mrs)
             /\ mrs = ExampleList
                  => /\ metrics = [open |-> 1, stale |-> 1, pipeline |-> 0,
                                   conflicts |-> 1]
                     /\ getAssignedPriorityScore(mrs[1]) = 5

\* more merge requests counted as stale, failing and conflicting than the
\* highlights show
C23_Witness ==
  \E c \in 1..Len(assignedCycles) :
    /\ assignedCycles[c].outcome = "transformed"
    /\ assignedCycles[c].payload.mrs = CrowdedList
    /\ Len(assignedCycles[c].update.highlights) = HIGHLIGHT_LIMIT
    /\ assignedCycles[c].update.metrics.conflicts = HIGHLIGHT_LIMIT + 1

-----------------------------------------------------------------------------
(* C24: the tags of an assigned highlight are the sub-sequence of          *)
(* Pipeline, Conflicts, Draft, Stale, in that order, with Pipeline iff the *)
(* pipeline status is 'failed', Conflicts iff the merge status is          *)
(* 'cannot_be_merged', Draft iff draft or work in progress, Stale iff      *)
(* updated before the stale threshold; nothing else decides them.          *)

C24_Order == <<"Pipeline", "Conflicts", "Draft", "Stale">>

C24_Carries(tag, pipelineStatus, mergeStatus, draft, updatedAt, threshold) ==
  \/ tag = "Pipeline" /\ pipelineStatus = "failed"
  \/ tag = "Conflicts" /\ mergeStatus = "cannot_be_merged"
  \/ tag = "Draft" /\ draft
  \/ tag = "Stale" /\ updatedAt < threshold

C24_IsTagList(tags, pipelineStatus, mergeStatus, draft, updatedAt, threshold) ==
  /\ \A i \in 1..4 :
       (\E k \in 1..Len(tags) : tags[k] = C24_Order[i])
         <=> C24_Carries(C24_Order[i], pipelineStatus, mergeStatus, draft,
                         updatedAt, threshold)
  /\ \A k \in 1..Len(tags) : \E i \in 1..4 : tags[k] = C24_Order[i]
  /\ \A k, l \in 1..Len(tags) :
       k < l => \E i, j \in 1..4 : i < j /\ tags[k] = C24_Order[i]
                                         /\ tags[l] = C24_Order[j]

C24_TagsInFixedOrder ==
  \A c \in 1..Len(assignedCycles) :
    (assignedCycles[c].outcome = "transformed" /\ assignedCycles[c].payload.isArray)
      => LET mrs == assignedCycles[c].payload.mrs
             hs == assignedCycles[c].update.highlights
         IN  \A k \in 1..Len(hs) :
               C24_IsTagList(hs[k].tags, mrs[hs[k].title].pipeline,
                             mrs[hs[k].title].merge_status,
                             mrs[hs[k].title].draft \/ mrs[hs[k].title].work_in_progress,
                             mrs[hs[k].title].updated_at, Now - 48 * 3600000)

\* a highlight with the four tags next to one that is work in progress only
C24_Witness ==
  \E c \in 1..Len(assignedCycles) :
    LET hs == assignedCycles[c].update.highlights
    IN  /\ assignedCycles[c].outcome = "transformed"
        /\ Len(hs) = 2
        /\ hs[1].tags = C24_Order
        /\ hs[2].tags = <<"Draft">>
        /\ assignedCycles[c].payload.mrs[hs[2].title].work_in_progress

-----------------------------------------------------------------------------
(* The settings of the App under every stored entry of StoredInputs *)

\* texts the entry of a key can hold when the App mounts
DetailsEntries == {<<>>, <<<<"t", "r", "u", "e">>>>, <<<<"f", "a", "l", "s", "e">>>>, <<<<"{">>>>}
NameEntries == {<<>>, <<<<"n", "u", "l", "l">>>>, <<<<"\"", "A", "d", "a", "\"">>>>, <<<<"A", "d", "a">>>>}
TimeZoneEntries ==
  {<<>>, <<<<>>>>, <<<<"n", "u", "l", "l">>>>, <<<<"\"", "U", "T", "C", "\"">>>>, <<<<"\"", " ", "M", "a", "r", "s", " ", "\"">>>>, <<<<"u", "n", "d", "e", "f", "i", "n", "e", "d">>>>}

\* what the user types into the time zone field and the name field
TypedTimeZones == {<<>>, <<" ">>, <<"U", "T", "C">>, <<" ", "U", "T", "C", " ">>, <<"u", "t", "c">>, <<"M", "a", "r", "s">>, <<" ", "M", "a", "r", "s", " ">>}
PRESET_TIME_ZONES == {SYSTEM_TIME_ZONE, <<"U", "T", "C">>, <<"E", "u", "r", "o", "p", "e", "/", "L", "o", "n", "d", "o", "n">>}
TypedNames == {<<>>, <<"A", "d", "a">>, <<"a", "\"", "\\">>}

\* the App mounts: the three hooks read their entries (lines 36-38), the
\* effects of the hooks write the values back, the validity effect runs
AppMount ==
  /\ ~settings.mounted
  /\ LET detailsValue == initialValue(storage[DETAILS_KEY], JsonBoolean(FALSE))
         nameValue == initialValue(storage[NAME_KEY], DEFAULT_DISPLAY_NAME)
         zoneValue == initialValue(storage[TIME_ZONE_KEY], JsonString(SYSTEM_TIME_ZONE))
     IN  /\ detailedWeather' = detailsValue.bool
         /\ settings' = settingsFor([settings EXCEPT !.mounted = TRUE,
                                                     !.displayName = nameValue],
                                    zoneValue, <<>>)
         /\ storage' = stored(stored(stored(storage, DETAILS_KEY, detailsValue),
                                     NAME_KEY, nameValue), TIME_ZONE_KEY, zoneValue)
  /\ lastEvent' = Event("mount", "settings", 0)
  /\ UNCHANGED <<rain, merged, env, assignedVars, reviewerVars, reviewRows, weatherVars,
                 links, palette, activation>>

\* the page is closed or reloaded
AppUnmount ==
  /\ settings.mounted
  /\ settings' = [settings EXCEPT !.mounted = FALSE, !.typed = <<>>]
  /\ lastEvent' = Event("unmount", "settings", 0)
  /\ UNCHANGED <<rain, merged, storage, env, assignedVars, reviewerVars, reviewRows,
                 weatherVars, paletteVars>>

\* onChange of the time zone input: App line 177
TimeZoneTyped ==
  \E text \in TypedTimeZones :
    /\ settings.mounted
    /\ settings' = settingsFor(settings, JsonString(text), <<text>>)
    /\ storage' = stored(storage, TIME_ZONE_KEY, JsonString(text))
    /\ lastEvent' = Event("typed", "timezone", 0)
    /\ UNCHANGED <<rain, merged, env, assignedVars, reviewerVars, reviewRows, weatherVars,
                   paletteVars>>

\* the 'Use system' button and the preset buttons: App lines 169 and 193
TimeZoneChosen ==
  \E zone \in PRESET_TIME_ZONES :
    /\ settings.mounted
    /\ settings' = settingsFor(settings, JsonString(zone), <<>>)
    /\ storage' = stored(storage, TIME_ZONE_KEY, JsonString(zone))
    /\ lastEvent' = Event("chosen", "timezone", 0)
    /\ UNCHANGED <<rain, merged, env, assignedVars, reviewerVars, reviewRows, weatherVars,
                   paletteVars>>

\* onChange of the name input and its reset button
DisplayNameChanged ==
  \E name \in {JsonString(text) : text \in TypedNames} \cup {DEFAULT_DISPLAY_NAME} :
    /\ settings.mounted
    /\ settings' = [settings EXCEPT !.displayName = name, !.typed = <<>>]
    /\ storage' = stored(storage, NAME_KEY, name)
    /\ lastEvent' = Event("changed", "name", 0)
    /\ UNCHANGED <<rain, merged, env, assignedVars, reviewerVars, reviewRows, weatherVars,
                   paletteVars>>

\* onCheckedChange of the weather details switch: App line 215
DetailsChecked ==
  \E checked \in BOOLEAN :
    /\ settings.mounted
    /\ detailedWeather' = checked
    /\ settings' = [settings EXCEPT !.typed = <<>>]
    /\ storage' = stored(storage, DETAILS_KEY, JsonBoolean(checked))
    /\ lastEvent' = Event("checked", "details", 0)
    /\ UNCHANGED <<rain, merged, env, assignedVars, reviewerVars, reviewRows, weatherVars,
                   links, palette, activation>>

InitSettings ==
  /\ env = [VITE_GITLAB_TOKEN |-> "glpat-1", VITE_GITLAB_USERNAME |-> "me"]
  /\ InitAssigned
  /\ InitReviewer
  /\ InitWeather /\ weatherProps.staticLocation.isNull /\ weatherProps.hasGeolocation
  /\ InitPaletteState /\ links = <<>>
  /\ reviewRows = <<>>
  /\ rain = NoRain
  /\ merged = NoMerged
  /\ storage \in { [key \in StorageKeys |->
                       IF key = DETAILS_KEY THEN d ELSE IF key = NAME_KEY THEN n ELSE z] :
                     d \in DetailsEntries, n \in NameEntries, z \in TimeZoneEntries }
  /\ settings = [DefaultSettings EXCEPT !.mounted = FALSE]
  /\ lastEvent = Event("init", "none", 0)

NextSettings ==
  \/ AppMount
  \/ AppUnmount
  \/ TimeZoneTyped
  \/ TimeZoneChosen
  \/ DisplayNameChanged
  \/ DetailsChecked

SpecSettings == InitSettings /\ [][NextSettings]_vars

-----------------------------------------------------------------------------
(* C25: the time zone used for display and the warning *)

\* the text of the stored setting: null reads as the empty text (line 39)
C25_Text == IF settings.timeZoneSetting.type = "string"
            THEN settings.timeZoneSetting.text ELSE <<>>

\* C25, first part: the zone used for display is the trimmed setting when it
\* is a valid identifier, and the system zone otherwise, which covers the
\* empty and the blank setting
C25_DisplayedZone ==
  settings.mounted =>
    settings.resolvedTimeZone =
      IF isValidTimeZone(trim(C25_Text)) THEN trim(C25_Text) ELSE SYSTEM_TIME_ZONE

\* C25, second part: the warning is shown exactly when the trimmed setting is
\* non-empty and not a valid identifier
C25_Warning ==
  settings.mounted =>
    (~settings.timeZoneValid <=>
       (trim(C25_Text) # <<>> /\ ~isValidTimeZone(trim(C25_Text))))

\* C25, third part: validation never modifies the stored setting, which stays
\* the text the user typed, in the state and in the storage
C25_Kept ==
  settings.typed # <<>> =>
    /\ settings.timeZoneSetting = JsonString(settings.typed[1])
    /\ storage[TIME_ZONE_KEY] = <<stringify(JsonString(settings.typed[1]))>>

\* C25: the displayed time zone is the trimmed valid setting or the system
\* zone, the warning is shown exactly for a non-empty invalid setting, and
\* the setting stays as typed
C25_TimeZoneFallsBack == C25_DisplayedZone /\ C25_Warning /\ C25_Kept

\* an invalid padded text was typed: the system zone is displayed, the warning
\* is shown, and the setting still holds the typed text
C25_Witness ==
  /\ settings.mounted
  /\ settings.typed = <<<<" ", "M", "a", "r", "s", " ">>>>
  /\ settings.timeZoneSetting = JsonString(<<" ", "M", "a", "r", "s", " ">>)
  /\ settings.resolvedTimeZone = SYSTEM_TIME_ZONE
  /\ ~settings.timeZoneValid

-----------------------------------------------------------------------------
(* C26: useLocalStorage *)

\* the value of the hook of a key
C26_Value(key, state, checked) ==
  IF key = DETAILS_KEY THEN JsonBoolean(checked)
  ELSE IF key = NAME_KEY THEN state.displayName ELSE state.timeZoneSetting

C26_Default(key) ==
  IF key = DETAILS_KEY THEN JsonBoolean(FALSE)
  ELSE IF key = NAME_KEY THEN DEFAULT_DISPLAY_NAME ELSE JsonString(SYSTEM_TIME_ZONE)

\* C26, first part: at a mount the value is the decoded entry when the entry
\* exists and parses, and the default otherwise
C26_Initial ==
  (lastEvent'.kind = "mount" /\ lastEvent'.effect = "settings") =>
    \A key \in StorageKeys :
      C26_Value(key, settings', detailedWeather') =
        IF storage[key] # <<>> /\ parse(storage[key][1]) # SyntaxError
        THEN parse(storage[key][1]) ELSE C26_Default(key)

\* C26, second part: while mounted the entry is the JSON encoding of the value
C26_Written ==
  settings'.mounted =>
    \A key \in StorageKeys :
      storage'[key] = <<stringify(C26_Value(key, settings', detailedWeather'))>>

\* C26, third part: a mount after an unmount reads back the last value
C26_ReadBack ==
  (lastEvent.kind = "unmount" /\ lastEvent'.kind = "mount") =>
    \A key \in StorageKeys :
      C26_Value(key, settings', detailedWeather') =
        C26_Value(key, settings, detailedWeather)

\* C26: the initial value of useLocalStorage is the decoded entry or the
\* default, the entry follows every update, and a re-mount reads the last value
C26_StorageRoundTrip == [][C26_Initial /\ C26_Written /\ C26_ReadBack]_vars

\* a name with a quote and a backslash was written, and a corrupt entry of
\* the details key was replaced by the encoding of the default
C26_Witness ==
  /\ settings.mounted
  /\ settings.displayName = JsonString(<<"a", "\"", "\\">>)
  /\ storage[NAME_KEY] = <<stringify(JsonString(<<"a", "\"", "\\">>))>>
  /\ lastEvent.kind = "mount"

-----------------------------------------------------------------------------
(* C27: the reviewer metrics and the final categories *)

\* the number of highlights of a category
C27_Count(highlights, category) ==
  Cardinality({i \in 1..Len(highlights) : highlights[i].reviewCategory = category})

\* C27: in a published reviewer result the three metrics sum to the number
\* of highlights, each metric counts the highlights of its category, and the
\* category of every highlight is getReviewCategory of its final review
\* state, for annotated, skipped and failed highlights alike
C27_MetricsMatchCategories ==
  \A c \in 1..Len(reviewerCycles) :
    reviewerCycles[c].outcome = "committed" =>
      LET highlights == reviewerCycles[c].result
          metrics == reviewerInsights(highlights).metrics
      IN  /\ metrics.needsReview + metrics.inReview + metrics.reviewed = Len(highlights)
          /\ metrics.needsReview = C27_Count(highlights, "needs-review")
          /\ metrics.inReview = C27_Count(highlights, "in-review")
          /\ metrics.reviewed = C27_Count(highlights, "reviewed")
          /\ \A i \in 1..Len(highlights) :
                /\ highlights[i].reviewCategory \in {"needs-review", "in-review", "reviewed"}
                /\ highlights[i].reviewCategory =
                     getReviewCategory(highlights[i].reviewState)
          /\ (c = Len(reviewerCycles) /\ ~reviewer.status.isNull) =>
                /\ reviewer.status.metrics = metrics
                /\ reviewer.status.highlights = highlights

\* a committed result with a skipped highlight next to one whose notes
\* request found a comment and whose discussions request failed, which
\* moved it from needs-review to in-review
C27_Witness ==
  \E c \in 1..Len(reviewerCycles) :
    /\ reviewerCycles[c].outcome = "committed"
    /\ ~reviewer.status.isNull
    /\ \E i, j \in 1..Len(reviewerCycles[c].requests) :
         /\ reviewerCycles[c].requests[i].notes = "skipped"
         /\ reviewerCycles[c].requests[j].notes = "some"
         /\ reviewerCycles[c].requests[j].discussions = "failed"
         /\ reviewerCycles[c].base[j].reviewCategory = "needs-review"
         /\ reviewerCycles[c].result[j].reviewCategory = "in-review"

-----------------------------------------------------------------------------
(* C28: the discussions request of a reviewer highlight *)

\* commentsResolved of the base highlight is true or false
C28_Known(highlight) == highlight.reviewState.commentsResolved \in {"true", "false"}

\* C28: a highlight whose commentsResolved is known gets no discussions
\* request and keeps its commentsResolved whatever the notes request
\* returns; a discussions request is issued only for an unknown
\* commentsResolved and only once the notes request has settled
C28_DiscussionsOnlyWhenUnknown ==
  \A c \in 1..Len(reviewerCycles) :
    \A i \in 1..Len(reviewerCycles[c].requests) :
      LET highlight == reviewerCycles[c].base[i]
          request == reviewerCycles[c].requests[i]
      IN  /\ C28_Known(highlight) =>
                /\ request.discussions = "skipped"
                /\ request.result.reviewState.commentsResolved =
                     highlight.reviewState.commentsResolved
          /\ request.discussions # "skipped" =>
                /\ ~C28_Known(highlight)
                /\ request.notes \in RequestOutcomes

\* one annotated highlight with a known commentsResolved whose notes request
\* found a comment, next to one with an unknown commentsResolved whose
\* discussions request was issued after its notes request
C28_Witness ==
  \E c \in 1..Len(reviewerCycles) :
    \E i, j \in 1..Len(reviewerCycles[c].requests) :
      /\ reviewerCycles[c].base[i].reviewState.commentsResolved = "false"
      /\ reviewerCycles[c].requests[i].step = "fulfilled"
      /\ reviewerCycles[c].requests[i].notes = "some"
      /\ reviewerCycles[c].requests[i].discussions = "skipped"
      /\ reviewerCycles[c].requests[i].result.reviewState.commentsResolved = "false"
      /\ reviewerCycles[c].requests[j].discussions = "pending"
      /\ reviewerCycles[c].requests[j].notes = "failed"

-----------------------------------------------------------------------------
(* C29: status, snapshot, error message and published summary *)

\* C29: while the weather widget is mounted, status 'ready' comes with a
\* snapshot and no error message, status 'error' comes with an error
\* message, and the summary last handed to onSummaryChange is non-null
\* exactly when the status is 'ready' with a snapshot
C29_StatusConsistent ==
  weather.mounted =>
    /\ weather.status = "ready" => (~weather.weather.isNull /\ weather.error = "null")
    /\ weather.status = "error" => weather.error # "null"
    /\ ~weatherSummary.isNull <=> (weather.status = "ready" /\ ~weather.weather.isNull)

\* a later cycle failed after an earlier one had succeeded: the status is
\* 'error' with its message, the earlier snapshot is still held, and the
\* published summary is null
C29_Witness ==
  /\ weather.mounted
  /\ weather.status = "error"
  /\ weather.error # "null"
  /\ ~weather.weather.isNull
  /\ weatherSummary.isNull
  /\ \E c \in 1..Len(weatherCycles) : weatherCycles[c].outcome = "committed"

-----------------------------------------------------------------------------
(* C30: the next-rain label and the next-rain minute offset *)

\* the label and the offset both come from entry i of the hourly block
C30_FromEntry(i) ==
  /\ rain.hourly.time[i] # <<>>
  /\ rain.nextRain = <<timeLabel(rain.hourly.time[i][1], rain.timeZone)>>
  /\ rain.nextRainMinutes = <<(rain.hourly.time[i][1] - Now) \div 60000>>

\* C30: in every snapshot nextRainMinutes is non-null exactly when nextRain
\* is non-null, and then the offset is the whole number of minutes from now
\* to the hour the label names, so both denote the same hourly entry
C30_SameHourlyEntry ==
  rain.applied =>
    /\ rain.nextRainMinutes # <<>> <=> rain.nextRain # <<>>
    /\ rain.nextRain # <<>> =>
          \E i \in 1..Len(rain.hourly.time) : C30_FromEntry(i)

\* no entry before now is rainy and the first rainy entry is among the
\* samples buildRainSeries collects
C30_RainWithinSeries ==
  /\ rain.applied
  /\ ~rain.hourly.isNull
  /\ rain.hourly.time # <<>> /\ rain.hourly.precipitation_probability # <<>>
  /\ \A i \in 1..Len(rain.hourly.time) :
        (/\ rain.hourly.time[i] # <<>>
         /\ rainExpected(rain.hourly.precipitation_probability[1][i],
                         amountAt(rain.hourly, i)))
        => /\ rain.hourly.time[i][1] >= Now
           /\ Cardinality({j \in 1..i : rain.hourly.time[j] # <<>>
                                         /\ rain.hourly.time[j][1] >= Now})
                <= RAIN_SAMPLE_LIMIT

\* the two fields agree whenever the first rainy entry lies in the series
C30_AgreeWithinSeries ==
  C30_RainWithinSeries =>
    /\ rain.nextRainMinutes # <<>> <=> rain.nextRain # <<>>
    /\ rain.nextRain # <<>> =>
          \E i \in 1..Len(rain.hourly.time) : C30_FromEntry(i)

\* rain beyond the collected samples: a label without an offset
C30_LabelWithoutOffset ==
  /\ rain.applied
  /\ rain.hourly = DistantRain
  /\ rain.nextRain # <<>>
  /\ rain.nextRainMinutes = <<>>

====
